---------------------------- MODULE Spec2Model ----------------------------
(***************************************************************************)
(* PyLogic: propositional-equivalence prover.                              *)
(*                                                                         *)
(* Expression trees (proposition/__init__.py), the equivalence laws and    *)
(* the proof-search engine (backend/utils/equivalence/__init__.py), the    *)
(* semantic verifiers (prove/service.py, backend/main.py) and              *)
(* ProveService.prove (prove/service.py).                                  *)
(*                                                                         *)
(* Representation.  A tree node is a tuple whose first element is its      *)
(* class:                                                                  *)
(*   <<"atom", text, table>>  AtomicNode around a Proposition; the cell    *)
(*                            (the Proposition object) is (table, text)    *)
(*   <<"const", text>>        AtomicNode around the TRUE / FALSE singleton *)
(*   <<"op", name, l, r>>     OperatorNode; r = NoneNode for a unary node  *)
(* A CompoundProposition is represented by its root node and a bare        *)
(* Proposition by the AtomicNode that wraps it.  A Python string is the    *)
(* sequence of its characters, so the text of the atom p is <<"p">> and    *)
(* the text of TRUE is <<"T">>.                                            *)
(***************************************************************************)
EXTENDS Integers, Sequences, FiniteSets, TLC

VARIABLES
    pc,                      \* position of the running call
    expr,                    \* LawSpec: the proposition handed to a law
    law,                     \* LawSpec: the law applied ("none" before the call)
    applied,                 \* LawSpec: what apply_<law> returned
    applied_path,            \* LawSpec: the path the law was applied at
    caller,                  \* "prove" (ProveService.prove), "engine" (a direct Equivalence call),
                             \* "verifier" (a direct call of a semantic verifier), "features"
                             \* (a predictor's feature extraction), "server" (request threads)
    prop1_str, prop2_str,    \* the two texts handed to parse_proposition
    prop1, prop2,            \* the two parsed propositions
    props1, props2,          \* the symbol tables parse_proposition returned with them
    method,                  \* strategy selector of the call
    max_iterations,          \* iteration budget of the call
    simplification_predictor,\* whether a SimplificationPredictor is passed to the engine
    is_trained,              \* whether the predictors handed to the call are trained
    optimize_iterations,     \* optimize_proof: iteration budget of a shortcut attempt
    intermediate_states,     \* optimize_proof: the re-parsed results of the proof steps
    shortcuts_found,         \* optimize_proof: the shortcuts recorded so far
    best_shortcut,           \* optimize_proof: the best shortcut so far, or None
    best_savings,            \* optimize_proof: the savings of the best shortcut so far
    inner_j,                 \* optimize_proof: index j of the loop over pairs of states
    optimization,            \* what optimize_proof returned
    store,                   \* value of every Proposition cell <<table, text>>
    impl,                    \* which verifier runs: "service" or "main"
    i,                       \* verifier: loop index over the 2^n assignments
    evals,                   \* verifier: <<evaluations of prop1, evaluations of prop2>>
    semantically_equivalent, \* verifier: returned value (meaningful once it returned)
    stage,                   \* strategy whose search loop is running
    current1, current2,      \* search loop: the two current propositions
    iteration,               \* search loop: loop index
    applied_transformations, \* search loop: Transformation records so far
    nn_predictions_used,     \* search loop: number of policy-guided rewrites
    attempts,                \* results of the strategies that already returned
    queries,                 \* number of predictor.predict calls made by the call
    result,                  \* dictionary returned by the call
    response,                \* what ProveService.prove (or get_status) returned
    _convergence_model,      \* service.py global: the pairwise policy object, or None
    _simplification_model,   \* service.py global: the single-expression policy object, or None
    _equivalence,            \* service.py global: the engine instance, or None
    heap,                    \* is_trained of every predictor object created so far
    thread_pc,               \* position of every request thread
    train_self,              \* the object bound to self in a thread's running train()
    context,                 \* what _load_models returned to every thread
    trainings                \* number of train() calls made on each kind of policy

lawVars == <<expr, law, applied, applied_path>>
textVars == <<prop1_str, prop2_str, props1, props2>>
callArgs == <<caller, method, max_iterations, simplification_predictor, is_trained>>
loadVars == <<_convergence_model, _simplification_model, _equivalence, heap, thread_pc,
              train_self, context, trainings>>
argVars == <<callArgs, loadVars>>
optVars == <<optimize_iterations, intermediate_states, shortcuts_found, best_shortcut,
            best_savings, inner_j, optimization>>
callVars == <<prop1, prop2, argVars, textVars, optVars>>
verVars == <<store, impl, i, evals, semantically_equivalent>>
loopVars == <<stage, current1, current2, iteration, applied_transformations,
              nn_predictions_used>>
outVars == <<attempts, queries, result, response>>
vars == <<pc, lawVars, callVars, verVars, loopVars, outVars>>

-----------------------------------------------------------------------------
(* Bounds *)

\* number of distinct atomic names in the propositions handed to the laws
NumAtoms == 2

\* number of request threads that call ProveService.prove for the first time
NumThreads == 2

AllNames == << <<"p">>, <<"q">>, <<"r">>, <<"s">> >>
AtomNames == {AllNames[k] : k \in 1..NumAtoms}

-----------------------------------------------------------------------------
(* proposition/__init__.py *)

NoneNode == <<"none">>
TRUE_CONST == <<"const", <<"T">>>>
FALSE_CONST == <<"const", <<"F">>>>

Proposition(text, table) == <<"atom", text, table>>
OperatorNode(operator, left, right) == <<"op", operator, left, right>>

IsAtomicNode(n) == n[1] \in {"atom", "const"}
IsOperatorNode(n) == n[1] = "op"

\* CompoundProposition(operator, left, right): a tree around the operands
CompoundProposition(operator, left, right) == OperatorNode(operator, left, right)

Not(l) == CompoundProposition("__invert__", l, NoneNode)
And(l, r) == CompoundProposition("__mul__", l, r)
Or(l, r) == CompoundProposition("__add__", l, r)
Implies(l, r) == CompoundProposition("__rshift__", l, r)

\* TruthConstant.is_constant / is_true / is_false on the wrapped proposition
is_constant(n) == n[1] = "const"
is_true(n) == n = TRUE_CONST
is_false(n) == n = FALSE_CONST

\* the four LogicOperator functors of class Proposition
operator_call(name, lv, rv) ==
    CASE name = "__add__" -> (lv \/ rv)
      [] name = "__mul__" -> (lv /\ rv)
      [] name = "__invert__" -> ~lv
      [] name = "__rshift__" -> (~lv \/ rv)

\* AtomicNode.evaluate / OperatorNode.evaluate; store maps a cell
\* <<table, text>> to the value last assigned to it
RECURSIVE evaluate(_, _)
evaluate(n, st) ==
    IF n[1] = "const" THEN n[2] = <<"T">>
    ELSE IF n[1] = "atom" THEN st[<<n[3], n[2]>>]
    ELSE IF n[4] = NoneNode
         THEN operator_call(n[2], evaluate(n[3], st), FALSE)
         ELSE operator_call(n[2], evaluate(n[3], st), evaluate(n[4], st))

-----------------------------------------------------------------------------
(* equivalence/__init__.py: helpers *)

RECURSIVE node_to_compound(_)
node_to_compound(node) ==
    IF IsAtomicNode(node) THEN node
    ELSE IF IsOperatorNode(node)
         THEN CompoundProposition(node[2], node_to_compound(node[3]),
                  IF node[4] # NoneNode THEN node_to_compound(node[4]) ELSE NoneNode)
         ELSE node

RECURSIVE nodes_equal(_, _)
\* atoms compared by class only, never by text
nodes_equal_ignoring_text(node1, node2) ==
    IF IsAtomicNode(node1) # IsAtomicNode(node2) THEN FALSE
    ELSE IF IsAtomicNode(node1) THEN TRUE
    ELSE IF IsOperatorNode(node1)
         THEN IF node1[2] # node2[2] THEN FALSE
              ELSE IF ~nodes_equal(node1[3], node2[3]) THEN FALSE
              ELSE IF node1[4] = NoneNode /\ node2[4] = NoneNode THEN TRUE
              ELSE IF node1[4] = NoneNode \/ node2[4] = NoneNode THEN FALSE
              ELSE nodes_equal(node1[4], node2[4])
         ELSE FALSE

nodes_equal(node1, node2) ==
    IF IsAtomicNode(node1) # IsAtomicNode(node2) THEN FALSE
    ELSE IF IsAtomicNode(node1) THEN node1[2] = node2[2]
    ELSE IF IsOperatorNode(node1)
         THEN IF node1[2] # node2[2] THEN FALSE
              ELSE IF ~nodes_equal(node1[3], node2[3]) THEN FALSE
              ELSE IF node1[4] = NoneNode /\ node2[4] = NoneNode THEN TRUE
              ELSE IF node1[4] = NoneNode \/ node2[4] = NoneNode THEN FALSE
              ELSE nodes_equal(node1[4], node2[4])
         ELSE FALSE

are_equal(a, b) == nodes_equal(a, b)

is_true_constant(node) == IsAtomicNode(node) /\ is_constant(node) /\ is_true(node)
is_false_constant(node) == IsAtomicNode(node) /\ is_constant(node) /\ is_false(node)
is_constant_node(node) == IsAtomicNode(node) /\ is_constant(node)

IsUnary(n, name) == IsOperatorNode(n) /\ n[2] = name /\ n[4] = NoneNode
IsBinary(n) == IsOperatorNode(n) /\ n[4] # NoneNode
AndOr == {"__add__", "__mul__"}
OtherOp(name) == IF name = "__add__" THEN "__mul__" ELSE "__add__"


-----------------------------------------------------------------------------
(* equivalence/__init__.py: the laws.  Each check_* looks at the root of   *)
(* the proposition only; each apply_* returns the proposition itself when  *)
(* its check fails.                                                        *)

check_double_negation(p) ==
    /\ IsOperatorNode(p)
    /\ ~(p[2] # "__invert__" \/ p[4] # NoneNode)
    /\ IsOperatorNode(p[3])
    /\ p[3][2] = "__invert__" /\ p[3][4] = NoneNode

\* apply_double_negation removing one negation only
apply_double_negation_single(p) ==
    IF ~check_double_negation(p) THEN p
    ELSE node_to_compound(p[3])

apply_double_negation(p) ==
    IF ~check_double_negation(p) THEN p
    ELSE node_to_compound(p[3][3])

check_de_morgan(p) ==
    /\ IsOperatorNode(p)
    /\ ~(p[2] # "__invert__" \/ p[4] # NoneNode)
    /\ IsOperatorNode(p[3])
    /\ p[3][2] \in AndOr /\ p[3][4] # NoneNode

apply_de_morgan(p) ==
    IF ~check_de_morgan(p) THEN p
    ELSE LET inner == p[3]
             not_left == Not(node_to_compound(inner[3]))
             not_right == Not(node_to_compound(inner[4]))
         IN  IF inner[2] = "__mul__"
             THEN CompoundProposition("__add__", not_left, not_right)
             ELSE CompoundProposition("__mul__", not_left, not_right)

check_de_morgan_reverse(p) ==
    /\ IsOperatorNode(p)
    /\ p[2] \in AndOr /\ p[4] # NoneNode

apply_de_morgan_reverse(p) ==
    IF ~check_de_morgan_reverse(p) THEN p
    ELSE LET not_left == Not(node_to_compound(p[3]))
             not_right == Not(node_to_compound(p[4]))
             inner == IF p[2] = "__add__"
                      THEN CompoundProposition("__mul__", not_left, not_right)
                      ELSE CompoundProposition("__add__", not_left, not_right)
         IN  Not(inner)

check_commutativity(p) ==
    /\ IsOperatorNode(p)
    /\ p[4] # NoneNode
    /\ p[2] \in AndOr

\* apply_commutativity swapping the operands of any binary operator
apply_commutativity_unguarded(p) ==
    IF ~(IsOperatorNode(p) /\ p[4] # NoneNode) THEN p
    ELSE CompoundProposition(p[2], node_to_compound(p[4]), node_to_compound(p[3]))

apply_commutativity(p) ==
    IF ~check_commutativity(p) THEN p
    ELSE CompoundProposition(p[2], node_to_compound(p[4]), node_to_compound(p[3]))

check_associativity(p) ==
    /\ IsOperatorNode(p)
    /\ p[4] # NoneNode
    /\ p[2] \in AndOr
    /\ IsOperatorNode(p[3])
    /\ p[3][4] # NoneNode
    /\ p[3][2] = p[2]

apply_associativity(p) ==
    IF ~check_associativity(p) THEN p
    ELSE LET op == p[2]
             p_comp == node_to_compound(p[3][3])
             q_comp == node_to_compound(p[3][4])
             r_comp == node_to_compound(p[4])
             q_op_r == CompoundProposition(op, q_comp, r_comp)
         IN  CompoundProposition(op, p_comp, q_op_r)

check_idempotence(p) ==
    /\ IsOperatorNode(p)
    /\ p[4] # NoneNode
    /\ p[2] \in AndOr
    /\ nodes_equal(p[3], p[4])

apply_idempotence(p) ==
    IF ~check_idempotence(p) THEN p
    ELSE node_to_compound(p[3])

\* the two inner tests shared by check_absorption and apply_absorption
AbsorbRight(p, inner_op) ==
    /\ IsOperatorNode(p[4]) /\ p[4][4] # NoneNode
    /\ p[4][2] = inner_op
    /\ (nodes_equal(p[3], p[4][3]) \/ nodes_equal(p[3], p[4][4]))

AbsorbLeft(p, inner_op) ==
    /\ IsOperatorNode(p[3]) /\ p[3][4] # NoneNode
    /\ p[3][2] = inner_op
    /\ (nodes_equal(p[4], p[3][3]) \/ nodes_equal(p[4], p[3][4]))

check_absorption(p) ==
    /\ IsOperatorNode(p)
    /\ p[4] # NoneNode
    /\ p[2] \in AndOr
    /\ (AbsorbRight(p, OtherOp(p[2])) \/ AbsorbLeft(p, OtherOp(p[2])))

apply_absorption(p) ==
    IF ~check_absorption(p) THEN p
    ELSE IF AbsorbRight(p, OtherOp(p[2])) THEN node_to_compound(p[3])
    ELSE IF AbsorbLeft(p, OtherOp(p[2])) THEN node_to_compound(p[4])
    ELSE p

can_distribute_child(node, outer_op) ==
    /\ IsOperatorNode(node)
    /\ node[4] # NoneNode
    /\ node[2] \in AndOr
    /\ node[2] # outer_op

check_distributivity(p) ==
    /\ IsOperatorNode(p) /\ p[4] # NoneNode
    /\ p[2] \in AndOr
    /\ (can_distribute_child(p[3], p[2]) \/ can_distribute_child(p[4], p[2]))

apply_distributivity(p) ==
    IF ~check_distributivity(p) THEN p
    ELSE LET outer_op == p[2]
             right_first == can_distribute_child(p[4], outer_op)
             pp == IF right_first THEN p[3] ELSE p[4]
             inner == IF right_first THEN p[4] ELSE p[3]
             p_compound == node_to_compound(pp)
             q_compound == node_to_compound(inner[3])
             r_compound == node_to_compound(inner[4])
             left_result == CompoundProposition(outer_op, p_compound, q_compound)
             right_result == CompoundProposition(outer_op, p_compound, r_compound)
         IN  CompoundProposition(inner[2], left_result, right_result)

check_factoring(p) ==
    /\ IsOperatorNode(p) /\ p[4] # NoneNode
    /\ p[2] \in AndOr
    /\ IsOperatorNode(p[3]) /\ p[3][4] # NoneNode
    /\ IsOperatorNode(p[4]) /\ p[4][4] # NoneNode
    /\ p[3][2] = OtherOp(p[2]) /\ p[4][2] = OtherOp(p[2])
    /\ \/ nodes_equal(p[3][3], p[4][3])
       \/ nodes_equal(p[3][3], p[4][4])
       \/ nodes_equal(p[3][4], p[4][3])
       \/ nodes_equal(p[3][4], p[4][4])

\* <<common, remainder1, remainder2>> as apply_factoring's if/elif chain picks them
factoring_parts(p) ==
    LET left_left == p[3][3]
        left_right == p[3][4]
        right_left == p[4][3]
        right_right == p[4][4]
    IN  IF nodes_equal(left_left, right_left) THEN <<left_left, left_right, right_right>>
        ELSE IF nodes_equal(left_left, right_right) THEN <<left_left, left_right, right_left>>
        ELSE IF nodes_equal(left_right, right_left) THEN <<left_right, left_left, right_right>>
        ELSE <<left_right, left_left, right_left>>

apply_factoring(p) ==
    IF ~check_factoring(p) THEN p
    ELSE LET outer_op == p[2]
             inner_op == OtherOp(outer_op)
             parts == factoring_parts(p)
             common_comp == node_to_compound(parts[1])
             rem1_comp == node_to_compound(parts[2])
             rem2_comp == node_to_compound(parts[3])
             inner_result == CompoundProposition(outer_op, rem1_comp, rem2_comp)
         IN  CompoundProposition(inner_op, common_comp, inner_result)

check_implication_elimination(p) ==
    /\ IsOperatorNode(p)
    /\ p[2] = "__rshift__" /\ p[4] # NoneNode

apply_implication_elimination(p) ==
    IF ~check_implication_elimination(p) THEN p
    ELSE CompoundProposition("__add__", Not(node_to_compound(p[3])), node_to_compound(p[4]))

check_implication_introduction(p) ==
    /\ IsOperatorNode(p)
    /\ ~(p[2] # "__add__" \/ p[4] = NoneNode)
    /\ IsOperatorNode(p[3])
    /\ p[3][2] = "__invert__" /\ p[3][4] = NoneNode

apply_implication_introduction(p) ==
    IF ~check_implication_introduction(p) THEN p
    ELSE CompoundProposition("__rshift__", node_to_compound(p[3][3]), node_to_compound(p[4]))

check_contraposition(p) ==
    /\ IsOperatorNode(p)
    /\ p[2] = "__rshift__" /\ p[4] # NoneNode

\* apply_contraposition returning the converse q -> p
apply_contraposition_converse(p) ==
    IF ~check_contraposition(p) THEN p
    ELSE CompoundProposition("__rshift__", node_to_compound(p[4]), node_to_compound(p[3]))

apply_contraposition(p) ==
    IF ~check_contraposition(p) THEN p
    ELSE LET not_q == Not(node_to_compound(p[4]))
             not_p == Not(node_to_compound(p[3]))
         IN  CompoundProposition("__rshift__", not_q, not_p)

check_identity(p) ==
    /\ IsOperatorNode(p)
    /\ p[4] # NoneNode
    /\ IF p[2] = "__add__" THEN is_false_constant(p[3]) \/ is_false_constant(p[4])
       ELSE IF p[2] = "__mul__" THEN is_true_constant(p[3]) \/ is_true_constant(p[4])
       ELSE FALSE

apply_identity(p) ==
    IF ~check_identity(p) THEN p
    ELSE IF p[2] = "__add__" /\ is_false_constant(p[4]) THEN node_to_compound(p[3])
    ELSE IF p[2] = "__add__" /\ is_false_constant(p[3]) THEN node_to_compound(p[4])
    ELSE IF p[2] = "__mul__" /\ is_true_constant(p[4]) THEN node_to_compound(p[3])
    ELSE IF p[2] = "__mul__" /\ is_true_constant(p[3]) THEN node_to_compound(p[4])
    ELSE p

check_domination(p) ==
    /\ IsOperatorNode(p)
    /\ p[4] # NoneNode
    /\ IF p[2] = "__add__" THEN is_true_constant(p[3]) \/ is_true_constant(p[4])
       ELSE IF p[2] = "__mul__" THEN is_false_constant(p[3]) \/ is_false_constant(p[4])
       ELSE FALSE

apply_domination(p) ==
    IF ~check_domination(p) THEN p
    ELSE IF p[2] = "__add__" THEN TRUE_CONST
    ELSE IF p[2] = "__mul__" THEN FALSE_CONST
    ELSE p

check_negation_constant(p) ==
    /\ IsOperatorNode(p)
    /\ ~(p[2] # "__invert__" \/ p[4] # NoneNode)
    /\ is_constant_node(p[3])

apply_negation_constant(p) ==
    IF ~check_negation_constant(p) THEN p
    ELSE IF is_true_constant(p[3]) THEN FALSE_CONST
    ELSE IF is_false_constant(p[3]) THEN TRUE_CONST
    ELSE p

check_complement(p) ==
    /\ IsOperatorNode(p)
    /\ p[4] # NoneNode
    /\ p[2] \in AndOr
    /\ \/ /\ IsOperatorNode(p[4])
          /\ p[4][2] = "__invert__" /\ p[4][4] = NoneNode
          /\ nodes_equal(p[3], p[4][3])
       \/ /\ IsOperatorNode(p[3])
          /\ p[3][2] = "__invert__" /\ p[3][4] = NoneNode
          /\ nodes_equal(p[3][3], p[4])

apply_complement(p) ==
    IF ~check_complement(p) THEN p
    ELSE IF p[2] = "__add__" THEN TRUE_CONST
    ELSE IF p[2] = "__mul__" THEN FALSE_CONST
    ELSE p

check_implication_constant(p) ==
    /\ IsOperatorNode(p)
    /\ ~(p[2] # "__rshift__" \/ p[4] = NoneNode)
    /\ (is_constant_node(p[3]) \/ is_constant_node(p[4]))

\* apply_implication_constant with the negation of `p -> F` forgotten
apply_implication_constant_no_negation(p) ==
    IF ~check_implication_constant(p) THEN p
    ELSE IF is_true_constant(p[3]) THEN node_to_compound(p[4])
    ELSE IF is_false_constant(p[3]) THEN TRUE_CONST
    ELSE IF is_true_constant(p[4]) THEN TRUE_CONST
    ELSE node_to_compound(p[3])

apply_implication_constant(p) ==
    IF ~check_implication_constant(p) THEN p
    ELSE IF is_true_constant(p[3]) THEN node_to_compound(p[4])
    ELSE IF is_false_constant(p[3]) THEN TRUE_CONST
    ELSE IF is_true_constant(p[4]) THEN TRUE_CONST
    ELSE IF is_false_constant(p[4]) THEN Not(node_to_compound(p[3]))
    ELSE p

\* the 17 entries of the `transformations` dictionary of prove_equivalence_nn
transformations ==
    {"double_negation", "idempotence", "absorption", "factoring", "identity",
     "domination", "negation_constant", "complement", "implication_constant",
     "de_morgan", "commutativity", "associativity", "implication_elimination",
     "implication_introduction", "contraposition", "de_morgan_reverse",
     "distributivity"}

\* transformations[name][0]
check_fn(name, p) ==
    CASE name = "double_negation" -> check_double_negation(p)
      [] name = "idempotence" -> check_idempotence(p)
      [] name = "absorption" -> check_absorption(p)
      [] name = "factoring" -> check_factoring(p)
      [] name = "identity" -> check_identity(p)
      [] name = "domination" -> check_domination(p)
      [] name = "negation_constant" -> check_negation_constant(p)
      [] name = "complement" -> check_complement(p)
      [] name = "implication_constant" -> check_implication_constant(p)
      [] name = "de_morgan" -> check_de_morgan(p)
      [] name = "commutativity" -> check_commutativity(p)
      [] name = "associativity" -> check_associativity(p)
      [] name = "implication_elimination" -> check_implication_elimination(p)
      [] name = "implication_introduction" -> check_implication_introduction(p)
      [] name = "contraposition" -> check_contraposition(p)
      [] name = "de_morgan_reverse" -> check_de_morgan_reverse(p)
      [] name = "distributivity" -> check_distributivity(p)

\* transformations[name][1]
apply_fn(name, p) ==
    CASE name = "double_negation" -> apply_double_negation(p)
      [] name = "idempotence" -> apply_idempotence(p)
      [] name = "absorption" -> apply_absorption(p)
      [] name = "factoring" -> apply_factoring(p)
      [] name = "identity" -> apply_identity(p)
      [] name = "domination" -> apply_domination(p)
      [] name = "negation_constant" -> apply_negation_constant(p)
      [] name = "complement" -> apply_complement(p)
      [] name = "implication_constant" -> apply_implication_constant(p)
      [] name = "de_morgan" -> apply_de_morgan(p)
      [] name = "commutativity" -> apply_commutativity(p)
      [] name = "associativity" -> apply_associativity(p)
      [] name = "implication_elimination" -> apply_implication_elimination(p)
      [] name = "implication_introduction" -> apply_implication_introduction(p)
      [] name = "contraposition" -> apply_contraposition(p)
      [] name = "de_morgan_reverse" -> apply_de_morgan_reverse(p)
      [] name = "distributivity" -> apply_distributivity(p)

-----------------------------------------------------------------------------
(* equivalence/__init__.py: "anywhere in the tree" utilities *)

RECURSIVE can_apply_to_subtree(_, _)
can_apply_to_subtree(node, name) ==
    IF IsAtomicNode(node) THEN FALSE
    ELSE IF IsOperatorNode(node)
         THEN \/ check_fn(name, node_to_compound(node))
              \/ can_apply_to_subtree(node[3], name)
              \/ (node[4] # NoneNode /\ can_apply_to_subtree(node[4], name))
         ELSE FALSE

can_apply_anywhere(prop, name) ==
    \/ check_fn(name, prop)
    \/ can_apply_to_subtree(prop, name)

\* the paths appended to `locations`, in the order the code appends them
RECURSIVE find_applicable_locations(_, _, _)
find_applicable_locations(node, name, path) ==
    IF ~IsOperatorNode(node) THEN <<>>
    ELSE LET child(c, dir) ==
                 (IF IsOperatorNode(node_to_compound(c)) /\ check_fn(name, node_to_compound(c))
                  THEN <<Append(path, dir)>> ELSE <<>>)
                 \o find_applicable_locations(c, name, Append(path, dir))
         IN  child(node[3], "left")
             \o (IF node[4] # NoneNode THEN child(node[4], "right") ELSE <<>>)

RootLocation == <<"root">>

\* applicable_locations of _apply_random_transformation_with_location
applicable_locations(prop, name) ==
    (IF check_fn(name, prop) THEN <<RootLocation>> ELSE <<>>)
    \o find_applicable_locations(prop, name, <<>>)

RECURSIVE apply_at_path_recursive(_, _, _)
\* the rebuilt parent keeps the rewritten child on both sides of a binary
\* operator reached through its left operand
apply_at_path_recursive_both_sides(node, path, name) ==
    IF path = <<>>
    THEN IF IsOperatorNode(node_to_compound(node))
         THEN apply_fn(name, node_to_compound(node))
         ELSE node
    ELSE IF IsOperatorNode(node)
         THEN IF Head(path) = "left"
              THEN OperatorNode(node[2], apply_at_path_recursive(node[3], Tail(path), name),
                                IF node[4] = NoneNode THEN node[4]
                                ELSE apply_at_path_recursive(node[3], Tail(path), name))
              ELSE IF Head(path) = "right"
              THEN OperatorNode(node[2], node[3], apply_at_path_recursive(node[4], Tail(path), name))
              ELSE node
         ELSE node

apply_at_path_recursive(node, path, name) ==
    IF path = <<>>
    THEN IF IsOperatorNode(node_to_compound(node))
         THEN apply_fn(name, node_to_compound(node))
         ELSE node
    ELSE IF IsOperatorNode(node)
         THEN IF Head(path) = "left"
              THEN OperatorNode(node[2], apply_at_path_recursive(node[3], Tail(path), name), node[4])
              ELSE IF Head(path) = "right"
              THEN OperatorNode(node[2], node[3], apply_at_path_recursive(node[4], Tail(path), name))
              ELSE node
         ELSE node

apply_at_path(prop, path, name) == apply_at_path_recursive(prop, path, name)

\* negation printed with the ASCII tilde and implication without its arrow
OperatorSymbol_ascii(name) ==
    CASE name = "__add__" -> "v"
      [] name = "__mul__" -> "^"
      [] name = "__invert__" -> "~"
      [] name = "__rshift__" -> ">"

\* LogicOperator.__repr__
OperatorSymbol(name) ==
    CASE name = "__add__" -> "v"
      [] name = "__mul__" -> "^"
      [] name = "__invert__" -> "¬"
      [] name = "__rshift__" -> "→"

\* AtomicNode.__str__ / OperatorNode.__str__: the canonical string, as the
\* sequence of its characters
RECURSIVE Str(_)
Str(node) ==
    IF IsAtomicNode(node) THEN node[2]
    ELSE IF node[4] = NoneNode
         THEN <<"(", OperatorSymbol(node[2])>> \o Str(node[3]) \o <<")">>
         ELSE <<"(">> \o Str(node[3]) \o <<" ", OperatorSymbol(node[2]), " ">>
              \o Str(node[4]) \o <<")">>

\* Python's None where a string is expected
NoneStr == <<>>

RECURSIVE node_at_path(_, _)
node_at_path(node, path) ==
    IF path = <<>> THEN node
    ELSE IF IsOperatorNode(node)
         THEN IF Head(path) = "left" THEN node_at_path(node[3], Tail(path))
              ELSE IF Head(path) = "right" THEN node_at_path(node[4], Tail(path))
              ELSE node_at_path(node, Tail(path))
         ELSE node

get_subexpr_at_path(prop, path) == Str(node_to_compound(node_at_path(prop, path)))

\* <<new_prop, matched_subexpr>> for the location random.choice picked
apply_random_transformation_with_location(prop, name, location) ==
    IF location = RootLocation
    THEN <<apply_fn(name, prop), NoneStr>>
    ELSE <<apply_at_path(prop, location, name), get_subexpr_at_path(prop, location)>>

SeqToSet(sq) == {sq[k] : k \in 1..Len(sq)}

-----------------------------------------------------------------------------
(* Propositions the parser can return *)

BinaryOperators == {"__add__", "__mul__", "__rshift__"}

\* atoms of symbol table `table` and the two constants
Leaves(table) == {Proposition(n, table) : n \in AtomNames} \cup {TRUE_CONST, FALSE_CONST}

\* S and every one-operator proposition over S
Grow(S) ==
    S \cup {Not(x) : x \in S}
      \cup {CompoundProposition(op, x, y) : op \in BinaryOperators, x \in S, y \in S}

\* every proposition of at most two operator levels, all atoms in one table
LawInputs == Grow(Grow(Leaves(1)))

\* propositions of three and four operator levels, for laws applied below
\* the root
DeepInputs ==
    LET p1 == Proposition(<<"p">>, 1)  q1 == Proposition(<<"q">>, 1)
        inner == {And(Not(Not(p1)), q1), Implies(And(p1, q1), Not(q1)),
                  Or(p1, And(q1, q1)), Not(Or(And(p1, TRUE_CONST), q1))}
    IN  {Not(x) : x \in inner} \cup {Or(x, q1) : x \in inner}
        \cup {Implies(q1, And(x, p1)) : x \in inner}

Tables == {1, 2}
Cells == Tables \X SeqToSet(AllNames)

\* every Proposition is created with value=False
InitialStore == [c \in Cells |-> FALSE]

\* the store in which every cell named n holds env[n]
StoreOf(env) == [c \in Cells |-> env[c[2]]]
Assignments == [SeqToSet(AllNames) -> BOOLEAN]

-----------------------------------------------------------------------------
(* proposition/parser.py *)

\* the ASCII letters and digits; str.isspace / isalpha / isalnum / upper on
\* one character
LowerCase == <<"a", "b", "c", "d", "e", "f", "g", "h", "i", "j", "k", "l", "m",
               "n", "o", "p", "q", "r", "s", "t", "u", "v", "w", "x", "y", "z">>
UpperCase == <<"A", "B", "C", "D", "E", "F", "G", "H", "I", "J", "K", "L", "M",
               "N", "O", "P", "Q", "R", "S", "T", "U", "V", "W", "X", "Y", "Z">>
DigitChars == {"0", "1", "2", "3", "4", "5", "6", "7", "8", "9"}
isspace(c) == c \in {" ", "\t", "\n"}
isalpha(c) == c \in SeqToSet(LowerCase) \cup SeqToSet(UpperCase)
isalnum(c) == isalpha(c) \/ c \in DigitChars
upper(c) ==
    IF c \in SeqToSet(LowerCase)
    THEN UpperCase[CHOOSE k \in 1..Len(LowerCase) : LowerCase[k] = c]
    ELSE c

\* an exception leaving a function, and a normal return together with the
\* state of the Parser (or the position of the Lexer) after the call
ParseError(message) == [raised |-> TRUE, exception |-> "ParseError", message |-> message]
Returned(value, parser) == [raised |-> FALSE, value |-> value, parser |-> parser]

Token(type_, value) == [type |-> type_, value |-> value]

\* str.strip
RECURSIVE lstrip(_)
lstrip(txt) == IF txt # <<>> /\ isspace(Head(txt)) THEN lstrip(Tail(txt)) ELSE txt
RECURSIVE rstrip(_)
rstrip(txt) ==
    IF txt # <<>> /\ isspace(txt[Len(txt)]) THEN rstrip(SubSeq(txt, 1, Len(txt) - 1)) ELSE txt
strip(txt) == rstrip(lstrip(txt))

\* the end of the run of letters (peek_word) and of the run of name
\* characters (the ATOM branch) that starts at position k; positions count
\* from 1
RECURSIVE AlphaEnd(_, _)
AlphaEnd(txt, k) == IF k <= Len(txt) /\ isalpha(txt[k]) THEN AlphaEnd(txt, k + 1) ELSE k
RECURSIVE NameEnd(_, _)
NameEnd(txt, k) ==
    IF k <= Len(txt) /\ (isalnum(txt[k]) \/ txt[k] = "_") THEN NameEnd(txt, k + 1) ELSE k

\* Lexer.peek_word; None is the empty word
peek_word(txt, pos) ==
    IF pos > Len(txt) \/ ~isalpha(txt[pos]) THEN <<>>
    ELSE [k \in 1..(AlphaEnd(txt, pos) - pos) |-> upper(txt[pos + k - 1])]

\* Lexer.get_next_token with the lexer at position pos: the token and the
\* position after it, or the ParseError it raises
RECURSIVE get_next_token(_, _)
get_next_token(txt, pos) ==
    IF pos > Len(txt) THEN Returned(Token("EOF", NoneStr), pos)
    ELSE LET current_char == txt[pos]
             peek == IF pos + 1 <= Len(txt) THEN txt[pos + 1] ELSE ""
             word == peek_word(txt, pos)
         IN  IF isspace(current_char) THEN get_next_token(txt, pos + 1)
             ELSE IF current_char = "-" /\ peek = ">"
                  THEN Returned(Token("IMPLIES", <<"→">>), pos + 2)
             ELSE IF current_char = "=" /\ peek = ">"
                  THEN Returned(Token("IMPLIES", <<"→">>), pos + 2)
             ELSE IF current_char = "→" THEN Returned(Token("IMPLIES", <<"→">>), pos + 1)
             ELSE IF current_char \in {"~", "!", "¬"}
                  THEN Returned(Token("NOT", <<"~">>), pos + 1)
             ELSE IF current_char \in {"^", "&", "*"}
                  THEN Returned(Token("AND", <<"^">>), pos + 1)
             ELSE IF current_char \in {"v", "|", "+"}
                  THEN Returned(Token("OR", <<"v">>), pos + 1)
             ELSE IF current_char = "(" THEN Returned(Token("LPAREN", <<"(">>), pos + 1)
             ELSE IF current_char = ")" THEN Returned(Token("RPAREN", <<")">>), pos + 1)
             ELSE IF word = <<"A", "N", "D">> THEN Returned(Token("AND", <<"^">>), pos + 3)
             ELSE IF word = <<"O", "R">> THEN Returned(Token("OR", <<"v">>), pos + 2)
             ELSE IF word = <<"N", "O", "T">> THEN Returned(Token("NOT", <<"~">>), pos + 3)
             ELSE IF word = <<"I", "M", "P", "L", "I", "E", "S">>
                  THEN Returned(Token("IMPLIES", <<"→">>), pos + 7)
             ELSE IF word = <<"T", "R", "U", "E">>
                  THEN Returned(Token("TRUE", <<"T">>), pos + 4)
             ELSE IF word = <<"F", "A", "L", "S", "E">>
                  THEN Returned(Token("FALSE", <<"F">>), pos + 5)
             ELSE IF word = <<"T">> THEN Returned(Token("TRUE", <<"T">>), pos + 1)
             ELSE IF word = <<"F">> THEN Returned(Token("FALSE", <<"F">>), pos + 1)
             ELSE IF isalpha(current_char)
                  THEN Returned(Token("ATOM", SubSeq(txt, pos, NameEnd(txt, pos) - 1)),
                                NameEnd(txt, pos))
             ELSE ParseError("Unexpected character")

\* the rest of a function after a call it makes: an exception of the call
\* leaves the function, a normal return goes on with the rest
Then(called, rest(_)) == IF called.raised THEN called ELSE rest(called)

\* Parser.__init__: the Parser is the record of its fields; `created` counts
\* the Proposition objects it created, which tags each of them
Parser(txt) ==
    Then(get_next_token(txt, 1), LAMBDA first :
        Returned(NoneNode, [text |-> txt, pos |-> first.parser,
                            current_token |-> first.value,
                            propositions |-> <<>>, created |-> 0]))

\* Parser.eat
eat(parser, token_type) ==
    IF parser.current_token.type = token_type
    THEN Then(get_next_token(parser.text, parser.pos), LAMBDA token :
             Returned(NoneNode, [parser EXCEPT !.current_token = token.value,
                                               !.pos = token.parser]))
    ELSE ParseError("Expected " \o token_type)

\* the Proposition object number `tag` of the Parser stored under its name
Cached(parser, name, tag) ==
    Returned(Proposition(name, tag),
        [parser EXCEPT !.created = tag,
                       !.propositions =
                           [nm \in DOMAIN parser.propositions \cup {name} |->
                               IF nm = name THEN Proposition(name, tag)
                               ELSE parser.propositions[nm]]])

\* a new Proposition created at every use of the name
get_proposition_uncached(parser, name) == Cached(parser, name, parser.created + 1)

\* Parser.get_proposition: the cached Proposition of the name, created on
\* its first use
get_proposition(parser, name) ==
    IF name \in DOMAIN parser.propositions
    THEN Returned(parser.propositions[name], parser)
    ELSE Cached(parser, name, parser.created + 1)

RECURSIVE expression(_)
RECURSIVE implication(_)
RECURSIVE disjunction(_)
RECURSIVE disjunction_loop(_, _)
RECURSIVE conjunction(_)
RECURSIVE conjunction_loop(_, _)
RECURSIVE unary(_)
RECURSIVE primary(_)

\* Parser.primary
primary(parser) ==
    IF parser.current_token.type = "ATOM"
    THEN Then(eat(parser, "ATOM"), LAMBDA eaten :
             get_proposition(eaten.parser, parser.current_token.value))
    ELSE IF parser.current_token.type = "TRUE"
    THEN Then(eat(parser, "TRUE"), LAMBDA eaten : Returned(TRUE_CONST, eaten.parser))
    ELSE IF parser.current_token.type = "FALSE"
    THEN Then(eat(parser, "FALSE"), LAMBDA eaten : Returned(FALSE_CONST, eaten.parser))
    ELSE IF parser.current_token.type = "LPAREN"
    THEN Then(eat(parser, "LPAREN"), LAMBDA eaten :
             Then(expression(eaten.parser), LAMBDA inner :
                 Then(eat(inner.parser, "RPAREN"), LAMBDA closed :
                     Returned(inner.value, closed.parser))))
    ELSE ParseError("Unexpected token")

\* Parser.unary
unary(parser) ==
    IF parser.current_token.type = "NOT"
    THEN Then(eat(parser, "NOT"), LAMBDA eaten :
             Then(unary(eaten.parser), LAMBDA operand :
                 Returned(CompoundProposition("__invert__", operand.value, NoneNode),
                          operand.parser)))
    ELSE primary(parser)

\* the right operand of AND parsed as a whole conjunction
conjunction_loop_right_assoc(left, parser) ==
    IF parser.current_token.type = "AND"
    THEN Then(eat(parser, "AND"), LAMBDA eaten :
             Then(conjunction(eaten.parser), LAMBDA right :
                 Returned(CompoundProposition("__mul__", left, right.value),
                          right.parser)))
    ELSE Returned(left, parser)

\* the while loop of Parser.conjunction
conjunction_loop(left, parser) ==
    IF parser.current_token.type = "AND"
    THEN Then(eat(parser, "AND"), LAMBDA eaten :
             Then(unary(eaten.parser), LAMBDA right :
                 conjunction_loop(CompoundProposition("__mul__", left, right.value),
                                  right.parser)))
    ELSE Returned(left, parser)

\* Parser.conjunction
conjunction(parser) ==
    Then(unary(parser), LAMBDA left : conjunction_loop(left.value, left.parser))

\* the while loop of Parser.disjunction
disjunction_loop(left, parser) ==
    IF parser.current_token.type = "OR"
    THEN Then(eat(parser, "OR"), LAMBDA eaten :
             Then(conjunction(eaten.parser), LAMBDA right :
                 disjunction_loop(CompoundProposition("__add__", left, right.value),
                                  right.parser)))
    ELSE Returned(left, parser)

\* Parser.disjunction
disjunction(parser) ==
    Then(conjunction(parser), LAMBDA left : disjunction_loop(left.value, left.parser))

\* Parser.implication
implication(parser) ==
    Then(disjunction(parser), LAMBDA left :
        IF left.parser.current_token.type = "IMPLIES"
        THEN Then(eat(left.parser, "IMPLIES"), LAMBDA eaten :
                 Then(implication(eaten.parser), LAMBDA right :
                     Returned(CompoundProposition("__rshift__", left.value, right.value),
                              right.parser)))
        ELSE left)

\* Parser.expression
expression(parser) == implication(parser)

\* the expression returned whatever token follows it
parse_without_eof_check(parser) ==
    Then(expression(parser), LAMBDA parsed :
        Returned(<<parsed.value, parsed.parser.propositions>>, parsed.parser))

\* Parser.parse: the pair (result, self._propositions) is the value
parse(parser) ==
    Then(expression(parser), LAMBDA parsed :
        IF parsed.parser.current_token.type # "EOF"
        THEN ParseError("Unexpected token after expression")
        ELSE Returned(<<parsed.value, parsed.parser.propositions>>, parsed.parser))

\* parse_proposition
parse_proposition(txt) ==
    IF txt = <<>> \/ strip(txt) = <<>> THEN ParseError("Empty expression")
    ELSE Then(Parser(strip(txt)), LAMBDA made : parse(made.parser))

-----------------------------------------------------------------------------
(* Values of the variables a specification does not use *)

NoResult == [kind |-> "none"]

IdleLaw == expr = NoneNode /\ law = "none" /\ applied = NoneNode /\ applied_path = <<>>
IdleText == prop1_str = NoneStr /\ prop2_str = NoneStr /\ props1 = <<>> /\ props2 = <<>>
IdleOptimizer ==
    /\ optimize_iterations = 0 /\ intermediate_states = <<>> /\ shortcuts_found = <<>>
    /\ best_shortcut = NoResult /\ best_savings = 0 /\ inner_j = 0 /\ optimization = NoResult
IdleCall ==
    /\ prop1 = NoneNode /\ prop2 = NoneNode /\ method = "none"
    /\ max_iterations = 0 /\ simplification_predictor = FALSE /\ is_trained = TRUE
    /\ IdleText /\ IdleOptimizer
IdleVerifier ==
    /\ store = InitialStore /\ impl = "none" /\ i = 0 /\ evals = <<0, 0>>
    /\ semantically_equivalent = FALSE
IdleLoop ==
    /\ stage = "none" /\ current1 = NoneNode /\ current2 = NoneNode /\ iteration = 0
    /\ applied_transformations = <<>> /\ nn_predictions_used = 0
IdleOut == attempts = <<>> /\ queries = 0 /\ result = NoResult /\ response = NoResult

\* the request threads of the server
Threads == 1..NumThreads
None == <<"None">>

\* service.py 17-20: the three globals start as None; no thread is running
IdleLoader ==
    /\ _convergence_model = None /\ _simplification_model = None /\ _equivalence = None
    /\ heap = <<>>
    /\ thread_pc = [t \in Threads |-> "idle"]
    /\ train_self = [t \in Threads |-> None]
    /\ context = [t \in Threads |-> NoResult]
    /\ trainings = [pairwise |-> 0, single |-> 0]

-----------------------------------------------------------------------------
(* LawSpec: one law applied to the root of one proposition *)

LawInit ==
    /\ pc = "law_call"
    /\ expr \in LawInputs \cup DeepInputs
    /\ law = "none" /\ applied = NoneNode /\ applied_path = <<>>
    /\ caller = "law"
    /\ IdleLoader
    /\ IdleCall /\ IdleVerifier /\ IdleLoop /\ IdleOut

ApplyLaw ==
    /\ pc = "law_call"
    /\ \E name \in transformations :
          /\ law' = name
          /\ applied' = apply_fn(name, expr)
    /\ applied_path' = RootLocation
    /\ pc' = "law_done"
    /\ UNCHANGED <<expr, callVars, verVars, loopVars, outVars>>

\* _apply_at_path(prop, path, apply_fn) at one of the paths
\* _find_applicable_locations found for the law
ApplyAtPath ==
    /\ pc = "law_call"
    /\ \E name \in transformations :
       \E path \in SeqToSet(find_applicable_locations(expr, name, <<>>)) :
          /\ law' = name
          /\ applied_path' = path
          /\ applied' = apply_at_path(expr, path, name)
    /\ pc' = "path_done"
    /\ UNCHANGED <<expr, callVars, verVars, loopVars, outVars>>

LawNext == ApplyLaw \/ ApplyAtPath
LawSpec == LawInit /\ [][LawNext]_vars

\* C1: whenever a law's check holds at the root of e, apply(e) has the truth
\* value of e under every assignment of the atomic variables
LawsPreserveTruth ==
    (pc = "law_done" /\ check_fn(law, expr)) =>
        \A env \in Assignments :
            evaluate(applied, StoreOf(env)) = evaluate(expr, StoreOf(env))

\* a law that matched and rewrote a proposition with two operator levels
LawsPreserveTruthWitness ==
    /\ pc = "law_done" /\ law = "factoring" /\ check_fn(law, expr)
    /\ applied # expr
    /\ \E env \in Assignments : evaluate(applied, StoreOf(env))

\* C12: when a law's check fails at the root of e, its apply returns e
\* unchanged
LawsNoOpWhenCheckFails ==
    (pc = "law_done" /\ ~check_fn(law, expr)) => applied = expr

\* a law was applied to an implication its check rejects
LawsNoOpWhenCheckFailsWitness ==
    /\ pc = "law_done" /\ law = "commutativity" /\ ~check_fn(law, expr)
    /\ IsOperatorNode(expr) /\ expr[2] = "__rshift__"
    /\ expr[3] # expr[4]
    /\ applied = expr

-----------------------------------------------------------------------------
(* Semantic verifiers: prove/service.py _verify_semantic_equivalence and   *)
(* backend/main.py check_semantic_equivalence                              *)

\* Parser._propositions of a parsed proposition: the names of its atoms
RECURSIVE props(_)
props(node) ==
    IF node[1] = "atom" THEN {node[2]}
    ELSE IF node[1] = "const" THEN {}
    ELSE props(node[3]) \cup (IF node[4] # NoneNode THEN props(node[4]) ELSE {})

\* position of a name in alphabetical order
Pos(name) == CHOOSE k \in 1..Len(AllNames) : AllNames[k] = name

\* sorted(all_names), as a sequence
Sorted(S) ==
    LET rank(x) == Cardinality({y \in S : Pos(y) < Pos(x)}) + 1
    IN  [k \in 1..Cardinality(S) |-> CHOOSE x \in S : rank(x) = k]

RECURSIVE Pow2(_)
Pow2(k) == IF k = 0 THEN 1 ELSE 2 * Pow2(k - 1)

\* main.py handles a constant prop1 before anything else
ConstantFirst == impl = "main" /\ (is_true(prop1) \/ is_false(prop1))

\* the names the running verifier enumerates
all_names ==
    IF ConstantFirst THEN props(prop2)
    ELSE (props(prop1) \cup props(prop2)) \ {<<"T">>, <<"F">>}

names == Sorted(all_names)
n == Cardinality(all_names)

\* the bit test shifted by one position too many
BitOffByOne(row, j) == ((row \div Pow2(j + 1)) % 2) = 1

\* bool((row >> j) & 1), j counted from 0
Bit(row, j) == ((row \div Pow2(j)) % 2) = 1

\* the store after the assignments of row `row`: props1[name].value = value
\* and props2[name].value = value for every enumerated name
RowStore(st, row) ==
    [c \in Cells |->
        IF /\ c[2] \in all_names
           /\ \/ (c[1] = 1 /\ c[2] \in props(prop1) /\ ~ConstantFirst)
              \/ (c[1] = 2 /\ c[2] \in props(prop2))
        THEN Bit(row, (CHOOSE j \in 1..n : names[j] = c[2]) - 1)
        ELSE st[c]]

\* _evaluate_proposition / evaluate_prop
evaluate_proposition(prop, st) == evaluate(prop, st)

\* main.py: `if _is_true_constant(prop1): if _is_true_constant(prop2): return True`
\* and the same for FALSE
VerifyConstantShortcut ==
    /\ pc = "verify" /\ ConstantFirst
    /\ prop2 = prop1
    /\ semantically_equivalent' = TRUE
    /\ pc' = "verified"
    /\ UNCHANGED <<lawVars, callVars, store, impl, i, evals, loopVars, outVars>>

\* `if n == 0: return evaluate(prop1) == evaluate(prop2)`
VerifyNoNames ==
    /\ pc = "verify" /\ ~ConstantFirst
    /\ n = 0
    /\ semantically_equivalent' =
           (evaluate_proposition(prop1, store) = evaluate_proposition(prop2, store))
    /\ evals' = <<evals[1] + 1, evals[2] + 1>>
    /\ pc' = "verified"
    /\ UNCHANGED <<lawVars, callVars, store, impl, i, loopVars, outVars>>

\* one pass of `for i in range(2 ** n)`
VerifyRow ==
    /\ pc = "verify"
    /\ IF ConstantFirst THEN prop2 # prop1 ELSE n # 0
    /\ i < Pow2(n)
    /\ LET st == RowStore(store, i)
           val1 == IF ConstantFirst THEN is_true(prop1) ELSE evaluate_proposition(prop1, st)
           val2 == evaluate_proposition(prop2, st)
       IN  /\ store' = st
           /\ evals' = <<IF ConstantFirst THEN evals[1] ELSE evals[1] + 1, evals[2] + 1>>
           /\ IF val1 # val2
              THEN /\ semantically_equivalent' = FALSE
                   /\ pc' = "verified"
                   /\ i' = i
              ELSE /\ i' = i + 1
                   /\ UNCHANGED <<pc, semantically_equivalent>>
    /\ UNCHANGED <<lawVars, callVars, impl, loopVars, outVars>>

\* the loop ran out: `return True`
VerifyExhausted ==
    /\ pc = "verify"
    /\ IF ConstantFirst THEN prop2 # prop1 ELSE n # 0
    /\ i = Pow2(n)
    /\ semantically_equivalent' = TRUE
    /\ pc' = "verified"
    /\ UNCHANGED <<lawVars, callVars, store, impl, i, evals, loopVars, outVars>>

\* a direct call of either verifier on two independently parsed propositions
VerifierInit ==
    /\ pc = "verify"
    /\ caller = "verifier"
    /\ IdleLoader
    /\ prop1 \in Grow(Leaves(1))
    /\ prop2 \in Grow(Leaves(2))
    /\ impl \in {"service", "main"}
    /\ method = "none" /\ max_iterations = 0 /\ simplification_predictor = FALSE
    /\ is_trained = TRUE
    /\ IdleText /\ IdleOptimizer
    /\ store = InitialStore /\ i = 0 /\ evals = <<0, 0>>
    /\ semantically_equivalent = FALSE
    /\ IdleLaw /\ IdleLoop /\ IdleOut

VerifierNext == VerifyConstantShortcut \/ VerifyNoNames \/ VerifyRow \/ VerifyExhausted
VerifierSpec == VerifierInit /\ [][VerifierNext]_vars

\* the two propositions agree under every assignment by name
SameTruthTable(a, b) ==
    \A env \in Assignments : evaluate(a, StoreOf(env)) = evaluate(b, StoreOf(env))

\* the number of names of the two symbol tables together
UnionSize == Cardinality(props(prop1) \cup props(prop2))

\* row `row` of the enumeration is a mismatch
Mismatch(row) ==
    LET st == RowStore(InitialStore, row)
    IN  (IF ConstantFirst THEN is_true(prop1) ELSE evaluate(prop1, st)) # evaluate(prop2, st)

-----------------------------------------------------------------------------
(* equivalence/__init__.py: one iteration of the search loops *)

\* the largest max_iterations a call is given
MaxIterations == 2

get_simplification_transformations ==
    <<"double_negation", "idempotence", "absorption", "factoring", "identity",
      "domination", "negation_constant", "complement", "implication_constant",
      "implication_elimination">>

get_structure_transformations ==
    <<"de_morgan", "commutativity", "associativity", "contraposition">>

get_expansion_transformations ==
    <<"de_morgan_reverse", "distributivity", "implication_introduction">>

\* what predictor.predict may name: any of the laws, or a name the
\* `transformations` dictionary does not hold
PolicyNames == transformations \cup {"no_such_rule"}

\* the pass without `continue`: a stale rewrite is assigned and recorded
NotApplied_recorded ==
    [applied |-> TRUE, which_prop |-> 1, transform_name |-> "none",
     new_prop |-> TRUE_CONST, matched_subexpr |-> NoneStr, used_nn |-> FALSE]

\* the iteration changed nothing (`continue`)
NotApplied == [applied |-> FALSE]

\* the rewrite of `prop` (proposition number which_prop) by law t_name at `location`
Rewrite(which_prop, t_name, prop, location, used_nn) ==
    LET r == apply_random_transformation_with_location(prop, t_name, location)
    IN  [applied |-> TRUE, which_prop |-> which_prop, transform_name |-> t_name,
         new_prop |-> r[1], matched_subexpr |-> r[2], used_nn |-> used_nn]

\* every rewrite of `prop` by t_name, one per location random.choice may pick
Rewrites(which_prop, t_name, prop, used_nn) ==
    {Rewrite(which_prop, t_name, prop, location, used_nn) :
        location \in SeqToSet(applicable_locations(prop, t_name))}

\* the <<law, proposition number>> pairs of a list of laws that apply
\* somewhere, in the order of the nested `for` loops
RECURSIVE ApplicablePairs(_, _, _)
ApplicablePairs(laws, c1, c2) ==
    IF laws = <<>> THEN <<>>
    ELSE (IF can_apply_anywhere(c1, Head(laws)) THEN <<<<Head(laws), 1>>>> ELSE <<>>)
         \o (IF can_apply_anywhere(c2, Head(laws)) THEN <<<<Head(laws), 2>>>> ELSE <<>>)
         \o ApplicablePairs(Tail(laws), c1, c2)

\* the fallback with the structure tier tried before the simplification tier
PairwiseFallback_structure_first(c1, c2) ==
    LET prop_of(idx) == IF idx = 1 THEN c1 ELSE c2
        simplification == ApplicablePairs(get_simplification_transformations, c1, c2)
        applicable_structure == SeqToSet(ApplicablePairs(get_structure_transformations, c1, c2))
        applicable_expansion == SeqToSet(ApplicablePairs(get_expansion_transformations, c1, c2))
    IN  IF applicable_structure # {}
        THEN UNION {Rewrites(c[2], c[1], prop_of(c[2]), FALSE) : c \in applicable_structure}
        ELSE IF simplification # <<>>
        THEN Rewrites(simplification[1][2], simplification[1][1],
                      prop_of(simplification[1][2]), FALSE)
        ELSE {NotApplied}
             \cup UNION {Rewrites(c[2], c[1], prop_of(c[2]), FALSE) : c \in applicable_expansion}

\* prove_equivalence_nn, `if not used_nn:` -- the prioritised fallback
PairwiseFallback(c1, c2) ==
    LET prop_of(idx) == IF idx = 1 THEN c1 ELSE c2
        simplification == ApplicablePairs(get_simplification_transformations, c1, c2)
        applicable_structure == SeqToSet(ApplicablePairs(get_structure_transformations, c1, c2))
        applicable_expansion == SeqToSet(ApplicablePairs(get_expansion_transformations, c1, c2))
    IN  IF simplification # <<>>
        THEN Rewrites(simplification[1][2], simplification[1][1],
                      prop_of(simplification[1][2]), FALSE)
        ELSE IF applicable_structure # {}
        THEN UNION {Rewrites(c[2], c[1], prop_of(c[2]), FALSE) : c \in applicable_structure}
        ELSE \* random.random() < 0.1 may fail or pass
             {NotApplied}
             \cup UNION {Rewrites(c[2], c[1], prop_of(c[2]), FALSE) : c \in applicable_expansion}

\* the body of the `for` loop of prove_equivalence_nn after the equality
\* test, for the prediction (which_prop, transform_name)
PairwiseOutcomes(c1, c2, which_prop, transform_name) ==
    LET current_prop == IF which_prop = 1 THEN c1 ELSE c2
    IN  IF transform_name \in transformations /\ can_apply_anywhere(current_prop, transform_name)
        THEN Rewrites(which_prop, transform_name, current_prop, TRUE)
        ELSE PairwiseFallback(c1, c2)

simplification_priority ==
    <<"complement", "domination", "identity", "negation_constant", "double_negation",
      "idempotence", "absorption", "factoring">>

structure_priority ==
    <<"distributivity", "associativity", "de_morgan", "implication_elimination",
      "commutativity">>

\* the laws of a priority list that apply somewhere in `current`, in order
RECURSIVE ApplicableLaws(_, _)
ApplicableLaws(laws, current) ==
    IF laws = <<>> THEN <<>>
    ELSE (IF can_apply_anywhere(current, Head(laws)) THEN <<Head(laws)>> ELSE <<>>)
         \o ApplicableLaws(Tail(laws), current)

\* the body of the `for` loop of prove_simplification_nn after the goal test
SimplificationOutcomes(current, transform_name) ==
    IF transform_name \in transformations /\ can_apply_anywhere(current, transform_name)
    THEN Rewrites(1, transform_name, current, TRUE)
    ELSE LET first == ApplicableLaws(simplification_priority, current)
             second == ApplicableLaws(structure_priority, current)
         IN  IF first # <<>> THEN Rewrites(1, first[1], current, FALSE)
             ELSE IF second # <<>> THEN Rewrites(1, second[1], current, FALSE)
             ELSE {NotApplied}

\* the record numbered from one
Transformation_one_based(it, o, p1, p2) ==
    [iteration |-> it + 1, proposition |-> o.which_prop, law |-> o.transform_name,
     result |-> Str(o.new_prop), used_nn |-> o.used_nn,
     matched_subexpr |-> o.matched_subexpr, p1 |-> p1, p2 |-> p2]

\* the Transformation record appended by either loop
Transformation(it, o, p1, p2) ==
    [iteration |-> it, proposition |-> o.which_prop, law |-> o.transform_name,
     result |-> Str(o.new_prop), used_nn |-> o.used_nn,
     matched_subexpr |-> o.matched_subexpr, p1 |-> p1, p2 |-> p2]

\* one pass of the `for` loop of prove_equivalence_nn that does not return
LoopIteration ==
    /\ pc = "loop"
    /\ iteration < max_iterations
    /\ ~are_equal(current1, current2)
    /\ is_trained
    /\ \E which_prop \in {1, 2}, transform_name \in PolicyNames :
       \E o \in PairwiseOutcomes(current1, current2, which_prop, transform_name) :
          IF o.applied
          THEN LET new1 == IF o.which_prop = 1 THEN o.new_prop ELSE current1
                   new2 == IF o.which_prop = 1 THEN current2 ELSE o.new_prop
               IN  /\ current1' = new1
                   /\ current2' = new2
                   /\ applied_transformations' =
                          Append(applied_transformations,
                                 Transformation(iteration, o, Str(new1), Str(new2)))
                   /\ nn_predictions_used' =
                          IF o.used_nn THEN nn_predictions_used + 1 ELSE nn_predictions_used
          ELSE UNCHANGED <<current1, current2, applied_transformations, nn_predictions_used>>
    /\ queries' = queries + 1
    /\ iteration' = iteration + 1
    /\ UNCHANGED <<pc, lawVars, callVars, verVars, stage, attempts, result, response>>

\* prove_simplification_nn: current is the constant named by goal 'F'
AtGoal(current) == is_constant_node(current) /\ is_false_constant(current)

\* one pass of the `for` loop of prove_simplification_nn that does not return
SimplificationIteration ==
    /\ pc = "simp"
    /\ iteration < max_iterations
    /\ ~AtGoal(current1)
    /\ is_trained
    /\ \E transform_name \in PolicyNames :
       \E o \in SimplificationOutcomes(current1, transform_name) :
          IF o.applied
          THEN /\ current1' = o.new_prop
               /\ applied_transformations' =
                      Append(applied_transformations,
                             Transformation(iteration, o, Str(o.new_prop), <<"F">>))
               /\ nn_predictions_used' =
                      IF o.used_nn THEN nn_predictions_used + 1 ELSE nn_predictions_used
          ELSE UNCHANGED <<current1, applied_transformations, nn_predictions_used>>
    /\ queries' = queries + 1
    /\ iteration' = iteration + 1
    /\ UNCHANGED <<pc, lawVars, callVars, verVars, stage, current2, attempts, result,
                   response>>

\* predictor.predict of an untrained predictor: `raise RuntimeError`, which
\* neither loop catches
PredictRaises ==
    /\ \/ pc = "loop" /\ iteration < max_iterations /\ ~are_equal(current1, current2)
       \/ pc = "simp" /\ iteration < max_iterations /\ ~AtGoal(current1)
    /\ ~is_trained
    /\ queries' = queries + 1
    /\ result' = [kind |-> "RuntimeError"]
    /\ pc' = "raised"
    /\ UNCHANGED <<lawVars, callVars, verVars, loopVars, attempts, response>>

-----------------------------------------------------------------------------
(* equivalence/__init__.py: the strategies and what they return *)

\* dict.get(key, default)
Get(d, key, default) == IF key \in DOMAIN d THEN d[key] ELSE default

\* the methods of class Equivalence that run a proof
EngineMethods ==
    {"prove_equivalence_nn", "prove_by_contrapositive", "prove_by_absurdity",
     "prove_equivalence_bidirectional", "prove_with_fallback"}

\* ProveService.prove: the attribute of `eq` each selector calls
Dispatch(selector) ==
    CASE selector = "automatic" -> "prove_with_fallback"
      [] selector = "direct" -> "prove_equivalence_nn"
      [] selector = "contrapositive" -> "prove_by_contrapositive"
      [] selector = "absurd" -> "prove_by_absurdity"
      [] selector = "bidirectional" -> "prove_bidirectional"

\* the engine method of the running call
engine_method == IF caller = "prove" THEN Dispatch(method) ELSE method

\* the strategy an engine method runs first
first_stage(m) ==
    CASE m = "prove_equivalence_nn" -> "direct"
      [] m = "prove_by_contrapositive" -> "contrapositive"
      [] m = "prove_by_absurdity" -> "absurdity"
      [] m = "prove_equivalence_bidirectional" -> "forward"
      [] m = "prove_with_fallback" -> "direct"

\* the propositions handed to the loops with the negation of prop2 left out
\* of the absurdity assumption
stage_props_without_negation(stg) ==
    CASE stg = "direct" -> <<prop1, prop2>>
      [] stg = "contrapositive" -> <<Not(prop1), Not(prop2)>>
      [] stg = "absurdity" -> <<And(prop1, prop2), FALSE_CONST>>
      [] stg = "forward" -> <<Implies(prop1, prop2), TRUE_CONST>>
      [] stg = "backward" -> <<Implies(prop2, prop1), TRUE_CONST>>

\* the two propositions a strategy hands to its search loop
stage_props(stg) ==
    CASE stg = "direct" -> <<prop1, prop2>>
      [] stg = "contrapositive" -> <<Not(prop1), Not(prop2)>>
      [] stg = "absurdity" -> <<And(prop1, Not(prop2)), FALSE_CONST>>
      [] stg = "forward" -> <<Implies(prop1, prop2), TRUE_CONST>>
      [] stg = "backward" -> <<Implies(prop2, prop1), TRUE_CONST>>

\* prove_by_absurdity: `if simplification_predictor:` picks the loop
stage_loop(stg) ==
    IF stg = "absurdity" /\ simplification_predictor THEN "simp" ELSE "loop"

\* entry of a strategy up to the first test of its search loop
StartStage(stg) ==
    /\ stage' = stg
    /\ current1' = stage_props(stg)[1]
    /\ current2' = stage_props(stg)[2]
    /\ iteration' = 0
    /\ applied_transformations' = <<>>
    /\ nn_predictions_used' = 0
    /\ pc' = stage_loop(stg)

\* prove_equivalence_nn leaves its loop: equal propositions or budget spent
LoopDone ==
    pc = "loop" /\ (are_equal(current1, current2) \/ iteration = max_iterations)

\* the returned dictionary counting the rewrites instead of the iterations
loop_result_counting_rewrites ==
    [success |-> are_equal(current1, current2),
     iterations |-> Len(applied_transformations),
     prop1_final |-> current1,
     prop2_final |-> current2,
     transformations |-> applied_transformations,
     nn_predictions_used |-> nn_predictions_used]

\* the dictionary prove_equivalence_nn returns
loop_result ==
    [success |-> are_equal(current1, current2),
     iterations |-> iteration,
     prop1_final |-> current1,
     prop2_final |-> current2,
     transformations |-> applied_transformations,
     nn_predictions_used |-> nn_predictions_used]

\* prove_simplification_nn leaves its loop
SimplificationDone ==
    pc = "simp" /\ (AtGoal(current1) \/ iteration = max_iterations)

\* the dictionary prove_simplification_nn returns
simplification_result ==
    [success |-> AtGoal(current1),
     iterations |-> iteration,
     transformations |-> applied_transformations,
     final_prop |-> current1,
     nn_predictions_used |-> nn_predictions_used]

\* the dictionary prove_by_contrapositive builds from the loop's
contrapositive_result(r) ==
    IF r.success
    THEN [success |-> TRUE, method |-> "contrapositive", iterations |-> r.iterations,
          nn_predictions_used |-> r.nn_predictions_used,
          transformations |-> r.transformations,
          prop1_final |-> r.prop1_final, prop2_final |-> r.prop2_final]
    ELSE [success |-> FALSE, method |-> "contrapositive", iterations |-> r.iterations,
          transformations |-> Get(r, "transformations", <<>>),
          prop1_final |-> Get(r, "prop1_final", NoneNode),
          prop2_final |-> Get(r, "prop2_final", NoneNode),
          reason |-> "contrapositive_failed"]

\* the dictionary prove_by_absurdity builds from the loop's
absurdity_result(r) ==
    IF r.success
    THEN [success |-> TRUE, method |-> "absurdity", iterations |-> r.iterations,
          nn_predictions_used |-> Get(r, "nn_predictions_used", 0),
          transformations |-> r.transformations,
          prop1_final |-> Get(r, "prop1_final", Get(r, "final_prop", NoneNode)),
          prop2_final |-> Get(r, "prop2_final", FALSE_CONST)]
    ELSE [success |-> FALSE, method |-> "absurdity", iterations |-> r.iterations,
          transformations |-> Get(r, "transformations", <<>>),
          prop1_final |-> Get(r, "prop1_final", Get(r, "final_prop", NoneNode)),
          prop2_final |-> Get(r, "prop2_final", FALSE_CONST),
          reason |-> "absurdity_failed"]

\* what is kept of a strategy's dictionary once the strategy has returned
Attempt(name, r) ==
    [method |-> name, success |-> r.success, iterations |-> r.iterations,
     rewrites |-> Len(r.transformations),
     nn_predictions_used |-> Get(r, "nn_predictions_used", 0)]

RECURSIVE SumIterations(_)
SumIterations(as) ==
    IF as = <<>> THEN 0 ELSE Head(as).iterations + SumIterations(Tail(as))

\* prove_with_fallback: total_iterations after the attempts `as`
total_iterations(as) == SumIterations(as)

\* prove_with_fallback: `return {**strategy_result, 'method': ..., 'total_iterations': ...}`
fallback_success(name, r, as) ==
    [k \in DOMAIN r \cup {"method", "total_iterations"} |->
        IF k = "total_iterations" THEN total_iterations(as)
        ELSE IF k = "method" THEN name
        ELSE r[k]]

\* prove_with_fallback: the dictionary returned when all strategies failed
fallback_all_failed(as) ==
    [success |-> FALSE, method |-> "all_failed",
     direct_result |-> as[1], contrapositive_result |-> as[2],
     absurdity_result |-> as[3],
     total_iterations |-> total_iterations(as)]

\* the fallback order with Contrapositive left out
next_strategy_skipping(stg) ==
    CASE stg = "direct" -> "absurdity"
      [] stg = "contrapositive" -> "absurdity"

\* prove_with_fallback: the strategy tried after a failed one
next_strategy(stg) ==
    CASE stg = "direct" -> "contrapositive"
      [] stg = "contrapositive" -> "absurdity"

\* the bidirectional dictionary reporting the forward run's iterations only
bidirectional_result_forward_only(as) ==
    [success |-> Len(as) = 2 /\ as[1].success /\ as[2].success,
     method |-> "bidirectional", forward_proof |-> as[1],
     backward_proof |-> IF Len(as) = 2 THEN as[2] ELSE NoResult,
     iterations |-> as[1].iterations]

\* prove_equivalence_bidirectional: the dictionary returned after the
\* attempts `as` (forward alone when it failed, else forward and backward)
bidirectional_result(as) ==
    IF ~as[1].success
    THEN [success |-> FALSE, method |-> "bidirectional", forward_proof |-> as[1],
          backward_proof |-> NoResult, iterations |-> as[1].iterations,
          reason |-> "forward_implication_failed"]
    ELSE IF ~as[2].success
    THEN [success |-> FALSE, method |-> "bidirectional", forward_proof |-> as[1],
          backward_proof |-> as[2],
          iterations |-> as[1].iterations + as[2].iterations,
          reason |-> "backward_implication_failed"]
    ELSE [success |-> TRUE, method |-> "bidirectional", forward_proof |-> as[1],
          backward_proof |-> as[2],
          iterations |-> as[1].iterations + as[2].iterations,
          nn_predictions_used |->
              as[1].nn_predictions_used + as[2].nn_predictions_used]

-----------------------------------------------------------------------------
(* prove/service.py: ProveService.prove *)

\* _format_transformations
format_transformations(ts) ==
    [k \in 1..Len(ts) |->
        [iteration |-> ts[k].iteration, proposition |-> ts[k].proposition,
         law |-> ts[k].law, result |-> ts[k].result,
         guided_by_nn |-> ts[k].used_nn, subexpression |-> ts[k].matched_subexpr,
         p1 |-> ts[k].p1, p2 |-> ts[k].p2]]

\* the Result returned when the truth tables differ
not_equivalent_response ==
    [kind |-> "Result.success", success |-> TRUE, equivalent |-> FALSE,
     method_used |-> "semantic_verification", iterations |-> 0, nn_predictions |-> 0,
     proposition1_initial |-> Str(prop1), proposition2_initial |-> Str(prop2),
     proposition1_final |-> Str(prop1), proposition2_final |-> Str(prop2),
     transformations |-> <<>>]

\* the Result returned when the propositions are already equal
syntactic_equality_response ==
    [kind |-> "Result.success", success |-> TRUE, equivalent |-> TRUE,
     method_used |-> "syntactic_equality", iterations |-> 0, nn_predictions |-> 0,
     proposition1_initial |-> Str(prop1), proposition2_initial |-> Str(prop2),
     proposition1_final |-> Str(prop1), proposition2_final |-> Str(prop2),
     transformations |-> <<>>]

\* the Result built from the dictionary r an engine method returned
prove_response(r) ==
    [kind |-> "Result.success",
     success |-> Get(r, "success", FALSE),
     equivalent |-> TRUE,
     method_used |-> IF method = "automatic" THEN Get(r, "method", "automatic") ELSE method,
     iterations |-> Get(r, "iterations", 0),
     nn_predictions |-> Get(r, "nn_predictions_used", 0),
     proposition1_initial |-> Str(prop1), proposition2_initial |-> Str(prop2),
     proposition1_final |-> Str(Get(r, "prop1_final", prop1)),
     proposition2_final |-> Str(Get(r, "prop2_final", prop2)),
     transformations |-> format_transformations(Get(r, "transformations", <<>>))]

\* the guard of the dispatch without the semantic check
ShouldProveWithoutSemanticCheck == ~are_equal(prop1, prop2)

\* `if not semantically_equivalent: return` and `if eq.are_equal(...): return`
\* both passed over
ShouldProve == semantically_equivalent /\ ~are_equal(prop1, prop2)

\* the engine method returns r to its caller; ProveService.prove turns it
\* into its Result
Finish(r) ==
    /\ result' = r
    /\ response' = IF caller = "prove" THEN prove_response(r) ELSE response
    /\ pc' = "done"
    /\ UNCHANGED loopVars

\* _generate_truth_table: leaves every enumerated cell at its value in the
\* last row
ProveStart ==
    /\ pc = "prove"
    /\ store' = IF n = 0 THEN store ELSE RowStore(store, Pow2(n) - 1)
    /\ pc' = "verify"
    /\ UNCHANGED <<lawVars, callVars, impl, i, evals, semantically_equivalent, loopVars,
                   outVars>>

ProveNotEquivalent ==
    /\ pc = "verified" /\ caller = "prove"
    /\ ~semantically_equivalent
    /\ response' = not_equivalent_response
    /\ pc' = "done"
    /\ UNCHANGED <<lawVars, callVars, verVars, loopVars, attempts, queries, result>>

ProveSyntacticallyEqual ==
    /\ pc = "verified" /\ caller = "prove"
    /\ semantically_equivalent /\ are_equal(prop1, prop2)
    /\ response' = syntactic_equality_response
    /\ pc' = "done"
    /\ UNCHANGED <<lawVars, callVars, verVars, loopVars, attempts, queries, result>>

\* the selector names a method the engine has
ProveDispatch ==
    /\ pc = "verified" /\ caller = "prove"
    /\ ShouldProve
    /\ engine_method \in EngineMethods
    /\ StartStage(first_stage(engine_method))
    /\ UNCHANGED <<lawVars, callVars, verVars, outVars>>

\* `eq.prove_bidirectional(...)`: Equivalence has no such attribute
ProveRaises ==
    /\ pc = "verified" /\ caller = "prove"
    /\ ShouldProve
    /\ engine_method \notin EngineMethods
    /\ response' = [kind |-> "AttributeError"]
    /\ pc' = "raised"
    /\ UNCHANGED <<lawVars, callVars, verVars, loopVars, attempts, queries, result>>

-----------------------------------------------------------------------------
(* Returns of the strategies *)

\* a direct call of an engine method
EngineCall ==
    /\ pc = "call" /\ caller = "engine"
    /\ StartStage(first_stage(engine_method))
    /\ UNCHANGED <<lawVars, callVars, verVars, outVars>>

\* prove_equivalence_nn returns, to its caller or to prove_with_fallback
DirectReturns ==
    /\ stage = "direct" /\ LoopDone
    /\ LET r == loop_result
           as == Append(attempts, Attempt("direct", r))
       IN  /\ attempts' = as
           /\ IF engine_method = "prove_with_fallback"
              THEN IF r.success
                   THEN Finish(fallback_success("direct", r, as))
                   ELSE StartStage(next_strategy("direct")) /\ UNCHANGED <<result, response>>
              ELSE Finish(r)
    /\ UNCHANGED <<lawVars, callVars, verVars, queries>>

\* prove_by_contrapositive returns
ContrapositiveReturns ==
    /\ stage = "contrapositive" /\ LoopDone
    /\ LET r == contrapositive_result(loop_result)
           as == Append(attempts, Attempt("contrapositive", r))
       IN  /\ attempts' = as
           /\ IF engine_method = "prove_with_fallback"
              THEN IF r.success
                   THEN Finish(fallback_success(r.method, r, as))
                   ELSE StartStage(next_strategy("contrapositive"))
                        /\ UNCHANGED <<result, response>>
              ELSE Finish(r)
    /\ UNCHANGED <<lawVars, callVars, verVars, queries>>

\* prove_by_absurdity returns
AbsurdityReturns ==
    /\ stage = "absurdity" /\ (LoopDone \/ SimplificationDone)
    /\ LET r == absurdity_result(IF pc = "simp" THEN simplification_result
                                 ELSE loop_result)
           as == Append(attempts, Attempt("absurdity", r))
       IN  /\ attempts' = as
           /\ IF engine_method = "prove_with_fallback"
              THEN IF r.success
                   THEN Finish(fallback_success(r.method, r, as))
                   ELSE Finish(fallback_all_failed(as))
              ELSE Finish(r)
    /\ UNCHANGED <<lawVars, callVars, verVars, queries>>

\* prove_equivalence_bidirectional: the run on (prop1 -> prop2) returns
ForwardReturns ==
    /\ stage = "forward" /\ LoopDone
    /\ LET as == Append(attempts, Attempt("forward", loop_result))
       IN  /\ attempts' = as
           /\ IF loop_result.success
              THEN StartStage("backward") /\ UNCHANGED <<result, response>>
              ELSE Finish(bidirectional_result(as))
    /\ UNCHANGED <<lawVars, callVars, verVars, queries>>

\* prove_equivalence_bidirectional: the run on (prop2 -> prop1) returns
BackwardReturns ==
    /\ stage = "backward" /\ LoopDone
    /\ LET as == Append(attempts, Attempt("backward", loop_result))
       IN  /\ attempts' = as
           /\ Finish(bidirectional_result(as))
    /\ UNCHANGED <<lawVars, callVars, verVars, queries>>

-----------------------------------------------------------------------------
(* Calls *)

\* pairs of propositions as two parse_proposition calls return them: the
\* atoms of the first in symbol table 1, those of the second in table 2
Scenarios ==
    LET p1 == Proposition(<<"p">>, 1)  q1 == Proposition(<<"q">>, 1)
        p2 == Proposition(<<"p">>, 2)  q2 == Proposition(<<"q">>, 2)
    IN  {<<Not(Not(p1)), p2>>,
         <<Implies(p1, q1), Implies(q2, p2)>>,
         <<Implies(p1, q1), Implies(Not(q2), Not(p2))>>,
         <<Not(And(p1, q1)), Or(Not(q2), Not(p2))>>,
         <<p1, p2>>,
         <<p1, q2>>,
         <<FALSE_CONST, And(And(p2, Not(p2)), q2)>>,
         <<FALSE_CONST, And(FALSE_CONST, p2)>>,
         <<TRUE_CONST, FALSE_CONST>>}

Selectors == {"automatic", "direct", "contrapositive", "absurd", "bidirectional"}

EngineInit ==
    /\ pc = "call"
    /\ caller = "engine"
    /\ IdleLoader
    /\ \E pair \in Scenarios : prop1 = pair[1] /\ prop2 = pair[2]
    /\ method \in EngineMethods
    /\ max_iterations \in 0..MaxIterations
    \* only prove_by_absurdity and prove_with_fallback take the parameter
    /\ simplification_predictor \in
           IF method \in {"prove_by_absurdity", "prove_with_fallback"}
           THEN BOOLEAN ELSE {FALSE}
    /\ is_trained \in BOOLEAN
    /\ IdleText /\ IdleOptimizer
    /\ IdleLaw /\ IdleVerifier /\ IdleLoop /\ IdleOut

EngineNext ==
    \/ EngineCall
    \/ LoopIteration
    \/ SimplificationIteration
    \/ PredictRaises
    \/ DirectReturns
    \/ ContrapositiveReturns
    \/ AbsurdityReturns
    \/ ForwardReturns
    \/ BackwardReturns

EngineSpec == EngineInit /\ [][EngineNext]_vars

\* ProveService.prove once both propositions are parsed; _load_models always
\* hands the engine a trained TransformationPredictor and a trained
\* SimplificationPredictor
Init ==
    /\ pc = "prove"
    /\ caller = "prove"
    /\ IdleLoader
    /\ \E pair \in Scenarios : prop1 = pair[1] /\ prop2 = pair[2]
    /\ method \in Selectors
    /\ max_iterations \in 1..MaxIterations
    /\ simplification_predictor = TRUE
    /\ is_trained = TRUE
    /\ IdleText /\ IdleOptimizer
    /\ store = InitialStore /\ impl = "service" /\ i = 0 /\ evals = <<0, 0>>
    /\ semantically_equivalent = FALSE
    /\ IdleLaw /\ IdleLoop /\ IdleOut

Next ==
    \/ ProveStart
    \/ VerifyNoNames
    \/ VerifyRow
    \/ VerifyExhausted
    \/ ProveNotEquivalent
    \/ ProveSyntacticallyEqual
    \/ ProveDispatch
    \/ ProveRaises
    \/ LoopIteration
    \/ SimplificationIteration
    \/ DirectReturns
    \/ ContrapositiveReturns
    \/ AbsurdityReturns

Spec == Init /\ [][Next]_vars

-----------------------------------------------------------------------------
(* Properties of the engine (EngineSpec) *)

\* every attempt recorded so far failed
AllFailed(as) == \A k \in 1..Len(as) : ~as[k].success

\* C2: Direct and Contrapositive are sound. While either searches, each
\* current proposition has the truth table of the proposition it was derived
\* from (the input for Direct, its negation for Contrapositive); when either
\* returns success the two final propositions are structurally equal and the
\* two inputs are semantically equivalent
DirectAndContrapositiveSound ==
    /\ (pc = "loop" /\ stage = "direct") =>
           SameTruthTable(current1, prop1) /\ SameTruthTable(current2, prop2)
    /\ (pc = "loop" /\ stage = "contrapositive") =>
           SameTruthTable(current1, Not(prop1)) /\ SameTruthTable(current2, Not(prop2))
    /\ \A k \in 1..Len(attempts) :
           (attempts[k].method \in {"direct", "contrapositive"} /\ attempts[k].success) =>
               SameTruthTable(prop1, prop2)
    /\ (/\ pc = "done"
        /\ method \in {"prove_equivalence_nn", "prove_by_contrapositive"}
        /\ result.success) =>
           /\ are_equal(result.prop1_final, result.prop2_final)
           /\ SameTruthTable(prop1, prop2)

\* Contrapositive proved an equivalence with at least one rewrite
DirectAndContrapositiveSoundWitness ==
    /\ pc = "done" /\ method = "prove_by_contrapositive"
    /\ result.success
    /\ Len(result.transformations) >= 1
    /\ result.prop1_final # Not(prop1)

\* C5: Direct, with a policy that answers, stays within its budget. The loop
\* index and the number of policy queries never exceed max_iterations
\* (max_iterations = 0 included),
\* every iteration completes whatever the policy answers, and when the
\* propositions are still different at the return the dictionary has
\* success = false, iterations = max_iterations, the two final propositions
\* and the transformations applied so far
DirectWithinBudget ==
    (method = "prove_equivalence_nn" /\ is_trained) =>
        /\ pc \in {"call", "loop", "done"}
        /\ iteration <= max_iterations
        /\ queries <= max_iterations
        /\ (pc = "loop" /\ ~are_equal(current1, current2) /\ iteration < max_iterations) =>
               \A which_prop \in {1, 2}, transform_name \in PolicyNames :
                   PairwiseOutcomes(current1, current2, which_prop, transform_name) # {}
        /\ (pc = "done" /\ ~are_equal(current1, current2)) =>
               /\ result.success = FALSE
               /\ result.iterations = max_iterations
               /\ queries = max_iterations
               /\ result.prop1_final = current1 /\ result.prop2_final = current2
               /\ result.transformations = applied_transformations
               /\ Len(result.transformations) <= max_iterations
               /\ \A k \in 1..Len(result.transformations) :
                      result.transformations[k].iteration < max_iterations

\* Direct spent a budget of two on two rewrites and failed
DirectWithinBudgetWitness ==
    /\ pc = "done" /\ method = "prove_equivalence_nn"
    /\ ~result.success
    /\ max_iterations = 2
    /\ Len(result.transformations) = 2

\* C6: prove_with_fallback tries Direct, Contrapositive, Absurdity in that
\* order; a strategy runs only after every earlier one failed, none runs
\* after a success, and the reported method is the first that succeeded
FallbackOrder ==
    method = "prove_with_fallback" =>
        LET order == <<"direct", "contrapositive", "absurdity">>
            last == Len(attempts)
        IN  /\ last <= 3
            /\ \A k \in 1..last : attempts[k].method = order[k]
            /\ \A k \in 1..(last - 1) : ~attempts[k].success
            /\ pc \in {"loop", "simp"} =>
                   /\ last < 3 /\ stage = order[last + 1]
                   /\ AllFailed(attempts)
            /\ pc = "done" =>
                   IF result.success
                   THEN attempts[last].success /\ result.method = order[last]
                   ELSE last = 3 /\ AllFailed(attempts) /\ result.method = "all_failed"

\* Direct and Contrapositive failed with a budget of one and Absurdity
\* succeeded
FallbackOrderWitness ==
    /\ pc = "done" /\ method = "prove_with_fallback"
    /\ max_iterations = 1
    /\ Len(attempts) = 3
    /\ result.success /\ result.method = "absurdity"

\* C10: Bidirectional runs Direct on (prop1 -> prop2) against T and, only
\* after that run succeeded, on (prop2 -> prop1) against T; it succeeds
\* exactly when both runs succeed and its iterations are the sum of the
\* iterations of the runs performed
BidirectionalOrder ==
    method = "prove_equivalence_bidirectional" =>
        /\ (pc = "loop" /\ stage = "forward") =>
               /\ attempts = <<>>
               /\ iteration = 0 => current1 = Implies(prop1, prop2) /\ current2 = TRUE_CONST
        /\ (pc = "loop" /\ stage = "backward") =>
               /\ Len(attempts) = 1 /\ attempts[1].method = "forward"
               /\ attempts[1].success
               /\ iteration = 0 => current1 = Implies(prop2, prop1) /\ current2 = TRUE_CONST
        /\ pc = "done" =>
               /\ Len(attempts) \in {1, 2}
               /\ (Len(attempts) = 2) = attempts[1].success
               /\ result.success = (Len(attempts) = 2 /\ attempts[2].success)
               /\ result.iterations =
                      attempts[1].iterations
                      + (IF Len(attempts) = 2 THEN attempts[2].iterations ELSE 0)

\* both runs succeeded, each after at least one iteration
BidirectionalOrderWitness ==
    /\ pc = "done" /\ method = "prove_equivalence_bidirectional"
    /\ result.success
    /\ attempts[1].iterations >= 1 /\ attempts[2].iterations >= 1

\* prop1 implies prop2 under every assignment by name
ImpliesEverywhere(a, b) ==
    \A env \in Assignments : evaluate(a, StoreOf(env)) => evaluate(b, StoreOf(env))

\* C11: Absurdity searches from prop1 ^ ~prop2 towards the constant F, in
\* the single-expression loop when a single-expression policy is supplied and
\* in the pairwise loop against F otherwise; it reports success only when
\* the assumption has been rewritten to F, hence only if prop1 implies prop2
\* under every assignment
AbsurditySound ==
    /\ (stage = "absurdity" /\ pc \in {"loop", "simp"}) =>
           /\ pc = IF simplification_predictor THEN "simp" ELSE "loop"
           /\ iteration = 0 => current1 = And(prop1, Not(prop2))
           /\ current2 = FALSE_CONST
           /\ SameTruthTable(current1, And(prop1, Not(prop2)))
    /\ \A k \in 1..Len(attempts) :
           (attempts[k].method = "absurdity" /\ attempts[k].success) =>
               ImpliesEverywhere(prop1, prop2)
    /\ (pc = "done" /\ method = "prove_by_absurdity" /\ result.success) =>
           /\ result.prop1_final = FALSE_CONST
           /\ result.prop2_final = FALSE_CONST
           /\ current1 = FALSE_CONST
           /\ ImpliesEverywhere(prop1, prop2)

\* Absurdity reduced an assumption with atoms to F in the pairwise loop
AbsurditySoundWitness ==
    /\ pc = "done" /\ method = "prove_by_absurdity"
    /\ ~simplification_predictor
    /\ result.success
    /\ Len(result.transformations) >= 2
    /\ props(prop2) # {}

\* C13 as stated: with an untrained predictor no call applies a rewrite and
\* none returns a success result, whatever the two propositions are
UntrainedFailsFast ==
    ~is_trained =>
        /\ applied_transformations = <<>>
        /\ AllFailed(attempts)
        /\ pc = "done" => ~result.success

\* C14: whatever the policy answers, Direct on ~~p versus p with a budget of
\* at least one never raises and returns success with iterations = 1 and
\* exactly one transformation, double_negation on proposition 1
DoubleNegationInOneStep ==
    (/\ method = "prove_equivalence_nn" /\ is_trained
     /\ prop1 = Not(Not(Proposition(<<"p">>, 1))) /\ prop2 = Proposition(<<"p">>, 2)
     /\ max_iterations >= 1) =>
        /\ pc # "raised"
        /\ iteration <= 1
        /\ pc = "done" =>
               /\ result.success
               /\ result.iterations = 1
               /\ Len(result.transformations) = 1
               /\ result.transformations[1].law = "double_negation"
               /\ result.transformations[1].proposition = 1
               /\ result.prop1_final = Proposition(<<"p">>, 1)

\* the run on ~~p versus p returned with budget left over
DoubleNegationInOneStepWitness ==
    /\ pc = "done" /\ method = "prove_equivalence_nn" /\ is_trained
    /\ prop1 = Not(Not(Proposition(<<"p">>, 1))) /\ prop2 = Proposition(<<"p">>, 2)
    /\ max_iterations = 2
    /\ result.success /\ queries = 1

-----------------------------------------------------------------------------
(* Properties of ProveService.prove (Spec) *)

\* C3: when the two propositions differ on some assignment the service
\* returns success = true, equivalent = false, iterations = 0 and no
\* transformations, no strategy is run and the policy is never queried; a
\* strategy runs only after the semantic check passed and the
\* structural-equality check failed
NonEquivalentShortCircuits ==
    /\ stage # "none" =>
           /\ pc \notin {"prove", "verify", "verified"}
           /\ semantically_equivalent /\ SameTruthTable(prop1, prop2)
           /\ ~are_equal(prop1, prop2)
    /\ queries > 0 => stage # "none"
    /\ ~SameTruthTable(prop1, prop2) =>
           /\ stage = "none" /\ queries = 0 /\ attempts = <<>>
           /\ pc # "raised"
           /\ pc = "verified" => ~semantically_equivalent
           /\ pc = "done" =>
                  /\ response.kind = "Result.success"
                  /\ response.success /\ ~response.equivalent
                  /\ response.iterations = 0
                  /\ response.transformations = <<>>

\* the service answered "not equivalent" for two propositions over two names
NonEquivalentShortCircuitsWitness ==
    /\ pc = "done" /\ method = "bidirectional"
    /\ ~response.equivalent
    /\ n = 2 /\ i > 0

\* C7 as stated: for 'automatic' the iterations of the response are the sum
\* of the iterations of every strategy attempted
AutomaticIterationsSummed ==
    (pc = "done" /\ method = "automatic" /\ attempts # <<>>) =>
        response.iterations = SumIterations(attempts)

\* C8 as stated: when every strategy that ran exhausted its budget the
\* response has success = false, a transformation list that is non-empty
\* when a rewrite was applied, and the final states of the search
ExhaustionReported ==
    (pc \in {"done", "raised"} /\ attempts # <<>> /\ AllFailed(attempts)) =>
        /\ response.kind = "Result.success"
        /\ ~response.success
        /\ (\E k \in 1..Len(attempts) : attempts[k].rewrites > 0) =>
               response.transformations # <<>>
        /\ response.proposition1_final = Str(current1)
        /\ response.proposition2_final = Str(current2)

\* C9 as stated: for two equivalent, structurally different propositions
\* every selector reaches an engine strategy and the call returns a Result
AllSelectorsDispatch ==
    (/\ pc \notin {"prove", "verify", "verified"}
     /\ SameTruthTable(prop1, prop2) /\ ~are_equal(prop1, prop2)) =>
        /\ pc # "raised"
        /\ stage # "none"
        /\ pc = "done" => response.kind = "Result.success"

-----------------------------------------------------------------------------
(* Parsing: parse_proposition called on two texts, set_proposition_values  *)
(* on the symbol table of the first, and laws applied to the first parsed  *)
(* proposition.  Here the third component of an atom is the tag its        *)
(* Parser gave the Proposition object (Parser.get_proposition).            *)

\* longest text of the exhaustive part of the inputs
MaxTextLen == 3
\* most laws applied in a row to a parsed proposition
MaxRewrites == 2

TextChars == {"p", "q", "T", "~", "^", "v", "-", ">", "(", ")", " ", "$"}
ShortTexts == UNION {[1..k -> TextChars] : k \in 0..MaxTextLen}

\* x o1 y o2 z and ~x o y, written without blanks
ChainOperators == {"^", "|", "→"}
ChainAtoms == {"p", "q"}
ChainTexts ==
    {<<x, o1, y, o2, z>> : x \in ChainAtoms, y \in ChainAtoms, z \in ChainAtoms,
                           o1 \in ChainOperators, o2 \in ChainOperators}
    \cup {<<"~", x, o1, y>> : x \in ChainAtoms, y \in ChainAtoms, o1 \in ChainOperators}

RightAssocText == <<"p", "-", ">", "q", "-", ">", "r">>
RightAssocGrouped == <<"p", "-", ">", "(", "q", "-", ">", "r", ")">>
MixedText == <<"p", " ", "v", " ", "q", " ", "^", " ", "r">>
MixedGrouped == <<"p", " ", "v", " ", "(", "q", " ", "^", " ", "r", ")">>
AmpersandText == <<"p", " ", "&", " ", "q">>
CaretText == <<"p", " ", "^", " ", "q">>
KeywordText == <<"p", " ", "A", "N", "D", " ", "q">>
CommutedText == <<"q", " ", "^", " ", "p">>

\* a complete expression, a blank, and a token that cannot continue it
CompleteTexts == {<<"p">>, <<"T">>, <<"~", "p">>, <<"(", "p", ")">>, <<"p", "^", "q">>}
TokenStarts == {<<"q">>, <<"T">>, <<"~", "q">>, <<"(", "q", ")">>, <<")">>, <<"(">>}
TrailingTexts == {e \o <<" ">> \o u : e \in CompleteTexts, u \in TokenStarts}

\* a complete expression followed by an operator with nothing after it
DanglingOperators == {<<"^">>, <<" ", "v">>, <<"-", ">">>, <<"→">>, <<" ", "A", "N", "D">>,
                      <<"^", "~">>, <<"^", "(">>}
PrematureTexts == {e \o o1 : e \in CompleteTexts, o1 \in DanglingOperators}

\* names with digits, underscores, keyword letters and a keyword prefix
NameTexts ==
    {<<"p", "1">>,
     <<"p", "_", "T", " ", "^", " ", "p", "v">>,
     <<"N", "o", "t", " ", "T", "r", "u", "e", "x">>,
     <<"f", "a", "l", "s", "e", " ", "=", ">", " ", "F", "_", "1">>}

\* one identifier each: lower-case and upper-case letters, a digit, an
\* underscore, and the words of the truth constants
IdentifierTexts ==
    {<<"t">>, <<"f">>, <<"v", "a", "r">>, <<"x">>, <<"x", "_", "1">>, <<"Q", "2">>,
     <<"T", "x">>, <<"F">>, <<"T", "R", "U", "E">>, <<"F", "A", "L", "S", "E">>}

SecondTexts ==
    {RightAssocGrouped, MixedGrouped, AmpersandText, CaretText, KeywordText, CommutedText}
FirstTexts ==
    ShortTexts \cup ChainTexts \cup TrailingTexts \cup PrematureTexts \cup SecondTexts
    \cup NameTexts \cup IdentifierTexts \cup {RightAssocText, MixedText}

\* the exception object that left the call
Exception(r) == [kind |-> r.exception, message |-> r.message]

\* the cells of a symbol table
CellsOf(propositions) == {<<propositions[nm][3], nm>> : nm \in DOMAIN propositions}

ParserInit ==
    /\ pc = "parse1"
    /\ caller = "parser"
    /\ IdleLoader
    /\ prop1_str \in FirstTexts
    /\ prop2_str = NoneStr /\ props1 = <<>> /\ props2 = <<>>
    /\ prop1 = NoneNode /\ prop2 = NoneNode /\ method = "none"
    /\ max_iterations = 0 /\ simplification_predictor = FALSE /\ is_trained = TRUE
    /\ IdleOptimizer
    /\ IdleLaw /\ IdleVerifier /\ IdleLoop /\ IdleOut

\* prop1, props1 = parse_proposition(prop1_str); every Proposition is
\* created with value=False
ParseFirst ==
    /\ pc = "parse1"
    /\ LET r == parse_proposition(prop1_str)
       IN  IF r.raised
           THEN /\ result' = Exception(r)
                /\ pc' = "raised"
                /\ UNCHANGED <<prop1, props1, store>>
           ELSE /\ prop1' = r.value[1]
                /\ props1' = r.value[2]
                /\ store' = [c \in CellsOf(r.value[2]) |-> FALSE]
                /\ pc' = "parse2"
                /\ UNCHANGED result
    /\ UNCHANGED <<lawVars, prop2, argVars, prop1_str, prop2_str, props2, optVars, impl, i,
                   evals, semantically_equivalent, loopVars, attempts, queries, response>>

\* prop2, props2 = parse_proposition(text)
ParseAs(text) ==
    /\ pc = "parse2"
    /\ prop2_str' = text
    /\ LET r == parse_proposition(text)
       IN  IF r.raised
           THEN /\ result' = Exception(r)
                /\ pc' = "raised"
                /\ UNCHANGED <<prop2, props2>>
           ELSE /\ prop2' = r.value[1]
                /\ props2' = r.value[2]
                /\ pc' = "parsed"
                /\ UNCHANGED result
    /\ UNCHANGED <<lawVars, prop1, argVars, prop1_str, props1, optVars, verVars, loopVars,
                   attempts, queries, response>>

\* the second text is another input
ParseSecond == \E text \in SecondTexts : ParseAs(text)

\* the second text is str(prop1)
ParseCanonical == ParseAs(Str(prop1))

\* set_proposition_values(props1, values)
SetValues ==
    /\ pc = "parse2"
    /\ \E values \in [DOMAIN props1 -> BOOLEAN] :
          store' = [c \in DOMAIN store |-> values[c[2]]]
    /\ pc' = "assigned"
    /\ UNCHANGED <<lawVars, callVars, impl, i, evals, semantically_equivalent, loopVars,
                   outVars>>

\* a law applied somewhere in the parsed proposition, or in the outcome of
\* the laws applied before
RewriteParsed ==
    /\ pc \in {"assigned", "rewritten"}
    /\ iteration < MaxRewrites
    /\ LET subject == IF pc = "assigned" THEN prop1 ELSE applied
       IN  \E name \in transformations :
           \E rw \in Rewrites(1, name, subject, FALSE) :
              /\ expr' = subject
              /\ law' = name
              /\ applied' = rw.new_prop
    /\ UNCHANGED applied_path
    /\ iteration' = iteration + 1
    /\ pc' = "rewritten"
    /\ UNCHANGED <<callVars, verVars, stage, current1, current2, applied_transformations,
                   nn_predictions_used, outVars>>

ParserNext == ParseFirst \/ ParseSecond \/ ParseCanonical \/ SetValues \/ RewriteParsed
ParserSpec == ParserInit /\ [][ParserNext]_vars

-----------------------------------------------------------------------------
(* Parser properties *)

\* binding strength of an operator character, and the operator it denotes
Strength(o) == CASE o = "^" -> 3 [] o = "|" -> 2 [] o = "→" -> 1
Denoted(o) == CASE o = "^" -> "__mul__" [] o = "|" -> "__add__" [] o = "→" -> "__rshift__"

\* the tree a chain text denotes when NOT binds tightest, then AND, then OR,
\* then IMPLIES, AND and OR chains group to the left and IMPLIES chains to
\* the right
GroupedTree(text) ==
    IF text[1] = "~"
    THEN CompoundProposition(Denoted(text[3]), Not(Proposition(<<text[2]>>, 0)),
                             Proposition(<<text[4]>>, 0))
    ELSE LET x == Proposition(<<text[1]>>, 0)
             y == Proposition(<<text[3]>>, 0)
             z == Proposition(<<text[5]>>, 0)
             left_first == \/ Strength(text[2]) > Strength(text[4])
                           \/ Strength(text[2]) = Strength(text[4]) /\ text[2] # "→"
         IN  IF left_first
             THEN CompoundProposition(Denoted(text[4]),
                      CompoundProposition(Denoted(text[2]), x, y), z)
             ELSE CompoundProposition(Denoted(text[2]), x,
                      CompoundProposition(Denoted(text[4]), y, z))

\* C15: the parser binds NOT tightest, then AND, then OR, then IMPLIES;
\* chains of AND and of OR group to the left and chains of IMPLIES to the
\* right: every chain text parses to the tree so grouped, p->q->r parses to
\* the tree of p->(q->r) and p v q ^ r to the tree of p v (q ^ r).
PrecedenceAndAssociativity ==
    /\ (pc # "parse1" /\ prop1_str \in ChainTexts) =>
          (prop1 # NoneNode /\ are_equal(prop1, GroupedTree(prop1_str)))
    /\ (pc # "parse1" /\ prop1_str \in {RightAssocText, MixedText}) => prop1 # NoneNode
    /\ (pc = "parsed" /\ <<prop1_str, prop2_str>> \in {<<RightAssocText, RightAssocGrouped>>,
                                                        <<MixedText, MixedGrouped>>}) =>
          (are_equal(prop1, prop2) /\ prop1 = prop2)

\* p->q->r and p->(q->r) were both parsed, to p → (q → r)
PrecedenceAndAssociativityWitness ==
    /\ pc = "parsed" /\ prop1_str = RightAssocText /\ prop2_str = RightAssocGrouped
    /\ prop1 = Implies(Proposition(<<"p">>, 1),
                       Implies(Proposition(<<"q">>, 2), Proposition(<<"r">>, 3)))
    /\ prop2 = prop1

\* the three spellings of p AND q
Spellings == {AmpersandText, CaretText, KeywordText}

\* C16: for propositions produced by the parser or by rewrites, are_equal
\* holds exactly when the canonical strings are identical: a proposition
\* equals itself, p & q, p ^ q and p AND q are equal, and p ^ q and q ^ p
\* are not.
EqualIffSameString ==
    /\ pc = "parsed" =>
          /\ are_equal(prop1, prop2) <=> (Str(prop1) = Str(prop2))
          /\ are_equal(prop1, prop1) /\ are_equal(prop2, prop2)
          /\ (prop1_str \in Spellings /\ prop2_str \in Spellings) => are_equal(prop1, prop2)
          /\ (prop1_str \in Spellings /\ prop2_str = CommutedText) => ~are_equal(prop1, prop2)
    /\ pc = "rewritten" =>
          /\ are_equal(expr, applied) <=> (Str(expr) = Str(applied))
          /\ are_equal(prop1, applied) <=> (Str(prop1) = Str(applied))
          /\ are_equal(applied, applied)

\* p & q and p AND q were parsed and are equal, both printing as (p ^ q)
EqualIffSameStringWitness ==
    /\ pc = "parsed" /\ prop1_str = AmpersandText /\ prop2_str = KeywordText
    /\ are_equal(prop1, prop2)
    /\ Str(prop1) = <<"(", "p", " ", "^", " ", "q", ")">>
    /\ Str(prop2) = Str(prop1)

\* C17: for every proposition parse_proposition can produce, parsing its
\* canonical string succeeds and yields a structurally equal proposition.
CanonicalStringRoundTrip ==
    (/\ pc \in {"parsed", "raised"}
     /\ prop1 # NoneNode
     /\ prop2_str = Str(prop1)) =>
        (pc = "parsed" /\ are_equal(prop1, prop2))

\* ~p^q was parsed to ((¬p) ^ q) and its canonical string parsed again
CanonicalStringRoundTripWitness ==
    /\ pc = "parsed" /\ prop1_str = <<"~", "p", "^", "q">>
    /\ prop2_str = <<"(", "(", "¬", "p", ")", " ", "^", " ", "q", ")">>
    /\ prop2_str = Str(prop1)
    /\ prop2 = And(Not(Proposition(<<"p">>, 1)), Proposition(<<"q">>, 2))

\* empty or blank text
Blank(text) == \A k \in 1..Len(text) : isspace(text[k])

\* a character that belongs to no token: one outside every token's
\* alphabet, a - or = not followed by >, a > not preceded by - or =
TokenChars ==
    {"→", "~", "!", "¬", "^", "&", "*", "v", "|", "+", "(", ")", "_", "-", "=", ">"}
UnexpectedCharacter(text) ==
    \E k \in 1..Len(text) :
        \/ ~(isalnum(text[k]) \/ isspace(text[k]) \/ text[k] \in TokenChars)
        \/ text[k] \in {"-", "="} /\ (k = Len(text) \/ text[k + 1] # ">")
        \/ text[k] = ">" /\ (k = 1 \/ text[k - 1] \notin {"-", "="})

\* the text ends where an operand or a closing parenthesis is due
EndsInsideSubexpression(text) ==
    LET t == strip(text)
    IN  /\ t # <<>>
        /\ \/ t[Len(t)] \in {"→", ">", "~", "!", "¬", "^", "&", "*", "|", "+", "("}
           \/ /\ t[Len(t)] = "v"
              /\ (Len(t) = 1 \/ ~(isalnum(t[Len(t) - 1]) \/ t[Len(t) - 1] = "_"))
           \/ text \in PrematureTexts

\* the parentheses of the text do not match
Opened(text, k) == Cardinality({j \in 1..k : text[j] = "("})
Closed(text, k) == Cardinality({j \in 1..k : text[j] = ")"})
MismatchedParentheses(text) ==
    \/ Opened(text, Len(text)) # Closed(text, Len(text))
    \/ \E k \in 1..Len(text) : Closed(text, k) > Opened(text, k)

\* C18: parse_proposition raises ParseError, and neither returns nor raises
\* anything else, on empty or blank text, on an unexpected character, on
\* tokens left after a complete expression, on text that ends inside a
\* subexpression and on mismatched parentheses.
MalformedTextRaisesParseError ==
    /\ result.kind \in {"none", "ParseError"}
    /\ (/\ pc # "parse1"
        /\ \/ Blank(prop1_str)
           \/ UnexpectedCharacter(prop1_str)
           \/ prop1_str \in TrailingTexts
           \/ EndsInsideSubexpression(prop1_str)
           \/ MismatchedParentheses(prop1_str)) =>
          (/\ pc = "raised" /\ result.kind = "ParseError"
           /\ prop1 = NoneNode /\ props1 = <<>>)

\* "p ^" raised ParseError at the missing operand
MalformedTextRaisesParseErrorWitness ==
    /\ pc = "raised" /\ prop1_str = <<"p", " ", "^">>
    /\ result = [kind |-> "ParseError", message |-> "Unexpected token"]
    /\ prop1 = NoneNode

\* the atoms (constants excluded) that occur in a tree
RECURSIVE AtomsOf(_)
AtomsOf(node) ==
    IF node[1] = "atom" THEN {node}
    ELSE IF node[1] = "const" THEN {}
    ELSE AtomsOf(node[3]) \cup (IF node[4] # NoneNode THEN AtomsOf(node[4]) ELSE {})

\* the symbol table holds exactly one cell for every atomic name of the
\* tree and every atom of the tree is the cell of its name
BoundTo(propositions, tree) ==
    /\ DOMAIN propositions = {a[2] : a \in AtomsOf(tree)}
    /\ \A nm \in DOMAIN propositions :
          /\ propositions[nm][1] = "atom"
          /\ propositions[nm][2] = nm
    /\ Cardinality(CellsOf(propositions)) = Cardinality(DOMAIN propositions)
    /\ \A a \in AtomsOf(tree) : a = propositions[a[2]]

\* C19: parse_proposition returns a symbol table with exactly one cell per
\* distinct atomic name, every occurrence of the name in the tree is that
\* cell, and a proposition obtained by applying laws keeps its atoms bound
\* to cells of that table, so its evaluation reads the values assigned
\* through the table.
OneCellPerName ==
    /\ prop1 # NoneNode =>
          (BoundTo(props1, prop1) /\ DOMAIN store = CellsOf(props1))
    /\ pc = "parsed" => BoundTo(props2, prop2)
    /\ pc = "rewritten" =>
          \A a \in AtomsOf(applied) :
              /\ a[2] \in DOMAIN props1
              /\ a = props1[a[2]]
              /\ <<a[3], a[2]>> \in DOMAIN store
              /\ evaluate(a, store) = store[<<props1[a[2]][3], a[2]>>]

\* p^p was parsed with one cell for p, p was set to true through the symbol
\* table, and idempotence left the atom p bound to that cell
OneCellPerNameWitness ==
    /\ pc = "rewritten" /\ prop1_str = <<"p", "^", "p">>
    /\ DOMAIN props1 = {<<"p">>}
    /\ prop1 = And(props1[<<"p">>], props1[<<"p">>])
    /\ store[<<1, <<"p">>>>] = TRUE
    /\ law = "idempotence" /\ applied = props1[<<"p">>]
    /\ evaluate(applied, store) = TRUE

-----------------------------------------------------------------------------
(* Proof optimisation: prove_equivalence_nn, then optimize_proof on the     *)
(* proof it returned (backend/main.py, option "optimize")                  *)

\* largest budget of the proof and of a shortcut attempt
MaxProofIterations == 4
MaxOptimizeIterations == 1

\* p ^ q against T ^ (p ^ q)
OptimizerScenarios ==
    LET p1 == Proposition(<<"p">>, 1)  q1 == Proposition(<<"q">>, 1)
        p2 == Proposition(<<"p">>, 2)  q2 == Proposition(<<"q">>, 2)
    IN  {<<And(p1, q1), And(TRUE_CONST, And(p2, q2))>>}

\* the <<current1, current2>> one pass of the `for` loop of
\* prove_equivalence_nn can leave, with the number of records it appended
LoopSuccessors(c1, c2) ==
    {IF o.applied
     THEN IF o.which_prop = 1 THEN <<o.new_prop, c2, 1>> ELSE <<c1, o.new_prop, 1>>
     ELSE <<c1, c2, 0>> :
        o \in UNION {PairwiseOutcomes(c1, c2, which_prop, transform_name) :
                        which_prop \in {1, 2}, transform_name \in PolicyNames}}

\* the success and iterations entries of the dictionaries that
\* prove_equivalence_nn can return when its loop is at pass `it` of `budget`
\* with `done` records in applied_transformations, and the length of their
\* transformations entry
RECURSIVE DirectSearch(_, _, _, _, _)
DirectSearch(c1, c2, it, budget, done) ==
    IF it < budget /\ ~are_equal(c1, c2)
    THEN UNION {DirectSearch(pr[1], pr[2], it + 1, budget, done + pr[3]) :
                   pr \in LoopSuccessors(c1, c2)}
    ELSE {[success |-> are_equal(c1, c2), iterations |-> it, transformations |-> done]}

\* a shortcut attempt: prove_equivalence_nn(source, target, predictor, budget)
ShortcutResults(source, target, budget) == DirectSearch(source, target, 0, budget, 0)

\* original_proof is the dictionary the proof returned
original_proof == result
original_steps == Len(original_proof.transformations)

\* the intermediate states collected from a list of transformations: the
\* results that parse to a CompoundProposition
RECURSIVE CollectStates(_)
CollectStates(ts) ==
    IF ts = <<>> THEN <<>>
    ELSE LET t == Head(ts)
             result_str == t.result
             parsed == parse_proposition(result_str)
         IN  (IF result_str # <<>> /\ ~parsed.raised /\ IsOperatorNode(parsed.value[1])
              THEN <<[step |-> t.iteration, prop |-> parsed.value[1], law |-> t.law,
                      result_str |-> result_str]>>
              ELSE <<>>)
             \o CollectStates(Tail(ts))

\* the <<i, j>> of the loop over pairs of states that come after <<a, b>>,
\* and the first of them; <<len, len>> when the loop is over
PairsAfter(a, b, len) ==
    {pr \in (0..(len - 3)) \X (0..(len - 1)) :
        /\ pr[2] >= pr[1] + 3
        /\ pr[1] > a \/ (pr[1] = a /\ pr[2] > b)}
NextPair(a, b, len) ==
    IF PairsAfter(a, b, len) = {} THEN <<len, len>>
    ELSE CHOOSE pr \in PairsAfter(a, b, len) :
             \A other \in PairsAfter(a, b, len) :
                 pr[1] < other[1] \/ (pr[1] = other[1] /\ pr[2] <= other[2])

OptimizerInit ==
    /\ pc = "call"
    /\ caller = "engine"
    /\ IdleLoader
    /\ method = "prove_equivalence_nn"
    /\ \E pair \in OptimizerScenarios : prop1 = pair[1] /\ prop2 = pair[2]
    /\ max_iterations \in 0..MaxProofIterations
    /\ simplification_predictor = FALSE /\ is_trained = TRUE
    /\ optimize_iterations = 0
    /\ intermediate_states = <<>> /\ shortcuts_found = <<>>
    /\ best_shortcut = NoResult /\ best_savings = 0 /\ inner_j = 0
    /\ optimization = NoResult
    /\ IdleText /\ IdleLaw /\ IdleVerifier /\ IdleLoop /\ IdleOut

\* optimize_proof(original_proof, prop1, prop2, predictor, max_iterations)
\* up to its first loop; the budget is an argument of the call
OptimizeCall ==
    /\ pc = "done"
    /\ optimize_iterations' \in 0..MaxOptimizeIterations
    /\ LET states == CollectStates(original_proof.transformations)
       IN  IF ~original_proof.success \/ original_proof.transformations = <<>>
           THEN /\ optimization' = [optimized |-> FALSE,
                                    reason |-> "no_valid_proof_to_optimize"]
                /\ pc' = "optimized"
                /\ UNCHANGED <<intermediate_states, i>>
           ELSE IF original_steps <= 2
           THEN /\ optimization' = [optimized |-> FALSE, original_steps |-> original_steps,
                                    reason |-> "proof_already_minimal"]
                /\ pc' = "optimized"
                /\ UNCHANGED <<intermediate_states, i>>
           ELSE IF states = <<>>
           THEN /\ optimization' = [optimized |-> FALSE, original_steps |-> original_steps,
                                    reason |-> "could_not_parse_intermediate_states"]
                /\ pc' = "optimized"
                /\ intermediate_states' = states
                /\ UNCHANGED i
           ELSE /\ intermediate_states' = states
                /\ i' = Len(states) - 1
                /\ pc' = "from_start"
                /\ UNCHANGED optimization
    /\ UNCHANGED <<lawVars, prop1, prop2, argVars, textVars, shortcuts_found,
                   best_shortcut, best_savings, inner_j, store, impl, evals,
                   semantically_equivalent, loopVars, outVars>>

\* the remaining steps counted from the record after the next one on
remaining_steps_from_next(n_steps, step) == n_steps - step - 2

\* remaining_steps = original_steps - target_state['step'] - 1
remaining_steps(n_steps, step) == n_steps - step - 1

\* one pass of `for i in range(len(intermediate_states) - 1, 0, -1)`
ShortcutFromStart ==
    /\ pc = "from_start"
    /\ i >= 1
    /\ LET target_state == intermediate_states[i + 1]
           target_prop == target_state.prop
           steps_to_skip == target_state.step
       IN  IF steps_to_skip < 2
           THEN UNCHANGED <<shortcuts_found, best_shortcut, best_savings>>
           ELSE \E shortcut_result \in
                       ShortcutResults(prop1, target_prop, optimize_iterations) :
                   IF shortcut_result.success
                   THEN LET shortcut_steps == shortcut_result.iterations
                            total_with_shortcut ==
                                shortcut_steps
                                    + remaining_steps(original_steps, target_state.step)
                            savings == original_steps - total_with_shortcut
                        IN  /\ IF savings > best_savings
                               THEN /\ best_savings' = savings
                                    /\ best_shortcut' =
                                           [kind |-> "shortcut",
                                            target_step |-> target_state.step,
                                            shortcut_result |-> shortcut_result,
                                            total_steps |-> total_with_shortcut,
                                            savings |-> savings]
                               ELSE UNCHANGED <<best_savings, best_shortcut>>
                            /\ shortcuts_found' =
                                   Append(shortcuts_found,
                                          [target_step |-> target_state.step,
                                           shortcut_steps |-> shortcut_steps,
                                           savings |-> savings])
                   ELSE UNCHANGED <<shortcuts_found, best_shortcut, best_savings>>
    /\ i' = i - 1
    /\ UNCHANGED <<pc, lawVars, prop1, prop2, argVars, textVars, optimize_iterations,
                   intermediate_states, inner_j, optimization, store, impl, evals,
                   semantically_equivalent, loopVars, outVars>>

\* the first loop is over; entry of the loop over pairs of states
FromStartDone ==
    /\ pc = "from_start"
    /\ i < 1
    /\ LET first == NextPair(-1, 0, Len(intermediate_states))
       IN  i' = first[1] /\ inner_j' = first[2]
    /\ pc' = "between"
    /\ UNCHANGED <<lawVars, prop1, prop2, argVars, textVars, optimize_iterations,
                   intermediate_states, shortcuts_found, best_shortcut, best_savings,
                   optimization, store, impl, evals, semantically_equivalent, loopVars,
                   outVars>>

\* one pass of the inner loop over the pairs <<i, j>> of intermediate states
ShortcutBetween ==
    /\ pc = "between"
    /\ i < Len(intermediate_states)
    /\ LET source_state == intermediate_states[i + 1]
           target_state == intermediate_states[inner_j + 1]
           steps_between == target_state.step - source_state.step
           budget == IF optimize_iterations < steps_between - 1
                     THEN optimize_iterations ELSE steps_between - 1
       IN  IF steps_between < 3
           THEN UNCHANGED shortcuts_found
           ELSE \E shortcut_result \in
                       ShortcutResults(source_state.prop, target_state.prop, budget) :
                   LET shortcut_steps == shortcut_result.iterations
                       savings == steps_between - shortcut_steps - 1
                   IN  IF shortcut_result.success /\ savings > 0
                       THEN shortcuts_found' =
                                Append(shortcuts_found,
                                       [from_step |-> source_state.step,
                                        to_step |-> target_state.step,
                                        shortcut_steps |-> shortcut_steps,
                                        savings |-> savings])
                       ELSE UNCHANGED shortcuts_found
    /\ LET following == NextPair(i, inner_j, Len(intermediate_states))
       IN  i' = following[1] /\ inner_j' = following[2]
    /\ UNCHANGED <<pc, lawVars, prop1, prop2, argVars, textVars, optimize_iterations,
                   intermediate_states, best_shortcut, best_savings, optimization, store,
                   impl, evals, semantically_equivalent, loopVars, outVars>>

\* optimize_proof returns after both loops
OptimizeReturns ==
    /\ pc = "between"
    /\ i >= Len(intermediate_states)
    /\ optimization' =
           IF shortcuts_found = <<>>
           THEN [optimized |-> FALSE, original_steps |-> original_steps,
                 shortcuts_found |-> <<>>, reason |-> "no_shortcuts_found"]
           ELSE IF best_shortcut # NoResult /\ best_shortcut.savings > 0
           THEN [optimized |-> TRUE, original_steps |-> original_steps,
                 optimized_steps |-> best_shortcut.total_steps,
                 savings |-> best_shortcut.savings,
                 best_shortcut |-> best_shortcut,
                 shortcuts_found |-> shortcuts_found,
                 optimized_proof |-> best_shortcut.shortcut_result]
           ELSE [optimized |-> FALSE, original_steps |-> original_steps,
                 shortcuts_found |-> shortcuts_found, reason |-> "no_beneficial_shortcuts"]
    /\ pc' = "optimized"
    /\ UNCHANGED <<lawVars, prop1, prop2, argVars, textVars, optimize_iterations,
                   intermediate_states, shortcuts_found, best_shortcut, best_savings,
                   inner_j, verVars, loopVars, outVars>>

OptimizerNext ==
    \/ EngineCall
    \/ LoopIteration
    \/ DirectReturns
    \/ OptimizeCall
    \/ ShortcutFromStart
    \/ FromStartDone
    \/ ShortcutBetween
    \/ OptimizeReturns

OptimizerSpec == OptimizerInit /\ [][OptimizerNext]_vars

\* the savings of the shortcuts a run of optimize_proof recorded
FoundSavings == {shortcuts_found[k].savings : k \in 1..Len(shortcuts_found)}

\* C20: optimize_proof reports optimized=true with the shortcut of maximum
\* savings among all the shortcuts it found, those from the original start
\* and those between two intermediate states, and reports no optimisation
\* only if it found no shortcut with positive savings.
BestShortcutReported ==
    pc = "optimized" =>
        /\ optimization.optimized =>
              \A sv \in FoundSavings : optimization.savings >= sv
        /\ ~optimization.optimized => \A sv \in FoundSavings : sv <= 0

-----------------------------------------------------------------------------
(* The fallback of the pairwise loop *)

\* the first fallback tier as the nine rules in the order of the description
FirstTierRules ==
    <<"double_negation", "idempotence", "absorption", "factoring", "identity",
      "domination", "negation_constant", "complement", "implication_constant">>

\* the last record of a history
LastOf(history) == history[Len(history)]

\* a pass of the pairwise loop appends a record that the policy did not guide
FallbackStep ==
    /\ pc = "loop"
    /\ Len(applied_transformations') = Len(applied_transformations) + 1
    /\ ~LastOf(applied_transformations').used_nn

\* C21 as stated: a fallback step applies the first applicable pair of the
\* nine first-tier rules, expression 1 before expression 2 for each rule, and
\* a rule applied by the fallback that belongs to neither the structure nor
\* the expansion tier is one of the nine (implication_elimination is never
\* applied by the fallback)
FirstTierIsTheNineRules ==
    [][FallbackStep =>
          LET t == LastOf(applied_transformations')
              pairs == ApplicablePairs(FirstTierRules, current1, current2)
          IN  /\ pairs # <<>> => <<t.law, t.proposition>> = pairs[1]
              /\ t.law \in SeqToSet(FirstTierRules)
                           \cup SeqToSet(get_structure_transformations)
                           \cup SeqToSet(get_expansion_transformations)]_vars


\* C22: a fallback step of the pairwise loop applies a structure-preserving
\* rule only when no rule of the first tier applies anywhere in either
\* expression, and a complexity-increasing rule only when in addition no
\* structure-preserving rule applies in either expression (the random gate is
\* the choice between such a rewrite and a pass that changes nothing)
FallbackTiersInOrder ==
    [][FallbackStep =>
          LET t == LastOf(applied_transformations')
              first == ApplicablePairs(get_simplification_transformations,
                                       current1, current2)
              second == ApplicablePairs(get_structure_transformations,
                                        current1, current2)
          IN  /\ t.law \in SeqToSet(get_structure_transformations) => first = <<>>
              /\ t.law \in SeqToSet(get_expansion_transformations) =>
                     first = <<>> /\ second = <<>>]_vars

\* the fallback of a Direct search applied a structure-preserving rule
FallbackTiersInOrderWitness ==
    /\ pc = "loop" /\ stage = "direct"
    /\ \E k \in 1..Len(applied_transformations) :
          /\ ~applied_transformations[k].used_nn
          /\ applied_transformations[k].law \in SeqToSet(get_structure_transformations)


\* a pass of the pairwise or of the single-expression loop that does not
\* return: the same search goes on with another iteration number
LoopPass ==
    /\ pc \in {"loop", "simp"} /\ pc' = pc /\ stage' = stage
    /\ iteration' # iteration

\* no law applies anywhere in the expressions the running loop works on
NothingApplicable ==
    \A t \in transformations :
        /\ ~can_apply_anywhere(current1, t)
        /\ pc = "loop" => ~can_apply_anywhere(current2, t)

-----------------------------------------------------------------------------
(* A law applied below the root *)

\* `after` differs from `before` only inside the subtree at `path`: along the
\* path the operators are the same and the sibling off the path is the same
RECURSIVE SameOffPath(_, _, _)
SameOffPath(before, after, path) ==
    IF path = <<>> THEN TRUE
    ELSE /\ IsOperatorNode(before) /\ IsOperatorNode(after)
         /\ after[2] = before[2]
         /\ IF Head(path) = "left"
            THEN after[4] = before[4] /\ SameOffPath(before[3], after[3], Tail(path))
            ELSE after[3] = before[3] /\ SameOffPath(before[4], after[4], Tail(path))

\* C24: _apply_at_path changes only the subtree at the path, which becomes
\* what the law returns for it: every subtree off the path and every
\* operator along the path is the same in the result as in the input (the
\* input is a value no statement of the call assigns to)
AppliedAtPathOnly ==
    pc = "path_done" =>
        /\ SameOffPath(expr, applied, applied_path)
        /\ node_at_path(applied, applied_path)
               = apply_fn(law, node_to_compound(node_at_path(expr, applied_path)))

\* a law rewrote a subtree two levels below the root of a proposition whose
\* other subtrees hold operators
AppliedAtPathOnlyWitness ==
    /\ pc = "path_done"
    /\ Len(applied_path) = 2
    /\ applied # expr
    /\ IsOperatorNode(expr[4])

-----------------------------------------------------------------------------
(* The transformation history *)

\* the history of a returned Direct result is consistent with its counters
\* and each record with the one before it
HistoryOfResult ==
    (pc = "done" /\ engine_method = "prove_equivalence_nn") =>
        LET ts == result.transformations
            before(k, which) ==
                IF k = 1 THEN (IF which = 1 THEN Str(prop1) ELSE Str(prop2))
                ELSE (IF which = 1 THEN ts[k - 1].p1 ELSE ts[k - 1].p2)
        IN  /\ Len(ts) <= result.iterations
            /\ result.iterations <= max_iterations
            /\ \A k \in 1..Len(ts) :
                  /\ ts[k].iteration \in 0..(max_iterations - 1)
                  /\ k > 1 => ts[k - 1].iteration < ts[k].iteration
                  /\ ts[k].proposition \in {1, 2}
                  /\ ts[k].proposition = 1 =>
                         ts[k].result = ts[k].p1 /\ ts[k].p2 = before(k, 2)
                  /\ ts[k].proposition = 2 =>
                         ts[k].result = ts[k].p2 /\ ts[k].p1 = before(k, 1)

\* while the Direct search runs, the history only grows at its end
HistoryGrows ==
    (stage = "direct" /\ stage' = "direct" /\ pc = "loop") =>
        /\ Len(applied_transformations') >= Len(applied_transformations)
        /\ SubSeq(applied_transformations', 1, Len(applied_transformations))
               = applied_transformations

\* C25: in every result of prove_equivalence_nn the history is append-only
\* and consistent: iteration indices strictly increase within
\* [0, max_iterations), there are at most `iterations` records and
\* iterations <= max_iterations, every record names expression 1 or 2, its
\* result is its snapshot of that expression, and its snapshot of the other
\* expression is the one of the previous record (the input for the first)
DirectHistoryConsistent == []HistoryOfResult /\ [][HistoryGrows]_vars

\* a Direct result whose history rewrote both expressions
DirectHistoryConsistentWitness ==
    /\ pc = "done" /\ engine_method = "prove_equivalence_nn"
    /\ Len(result.transformations) = 2
    /\ result.transformations[1].proposition # result.transformations[2].proposition

-----------------------------------------------------------------------------
(* The count of policy-guided steps *)

\* the transformations of a response that are flagged as guided by the policy
GuidedSteps(r) == {k \in 1..Len(r.transformations) : r.transformations[k].guided_by_nn}

\* C26 as stated: in every structured result of ProveService.prove, for
\* every strategy and for successful and failed searches alike,
\* nn_predictions is the number of its transformations flagged as guided
NnPredictionsCountGuided ==
    (pc = "done" /\ caller = "prove" /\ response.kind = "Result.success") =>
        response.nn_predictions = Cardinality(GuidedSteps(response))

-----------------------------------------------------------------------------
(* Identifiers and truth constants *)

\* a letter followed by letters, digits and underscores
IsIdentifier(txt) ==
    /\ txt # <<>> /\ isalpha(txt[1])
    /\ \A k \in 1..Len(txt) : isalnum(txt[k]) \/ txt[k] = "_"

TruthConstantWords ==
    {<<"T">>, <<"F">>, <<"T", "R", "U", "E">>, <<"F", "A", "L", "S", "E">>}
ReservedWords ==
    TruthConstantWords
    \cup {<<"A", "N", "D">>, <<"O", "R">>, <<"N", "O", "T">>,
          <<"I", "M", "P", "L", "I", "E", "S">>}

\* C27 as stated: a text that is one of T, F, TRUE, FALSE parses to that
\* truth constant, and a text that is any other identifier and no reserved
\* word parses to the one atom that carries exactly that name (t, f and var
\* are atoms)
IdentifiersAreAtoms ==
    (pc # "parse1" /\ IsIdentifier(prop1_str)) =>
        /\ prop1_str \in TruthConstantWords =>
               prop1 = <<"const", <<prop1_str[1]>>>>
        /\ prop1_str \notin ReservedWords =>
               prop1 = Proposition(prop1_str, 1)

-----------------------------------------------------------------------------
(* nn/features.py: the usefulness analysis behind the predictors' features *)

\* sorted(propositions.keys()): upper-case texts sort before lower-case ones
KeyOrder == << <<"F">>, <<"T">> >> \o AllNames
SortedKeys(S) ==
    LET at(x) == CHOOSE k \in 1..Len(KeyOrder) : KeyOrder[k] = x
        rank(x) == Cardinality({y \in S : at(y) < at(x)}) + 1
    IN  [k \in 1..Cardinality(S) |-> CHOOSE x \in S : rank(x) = k]

\* _collect_propositions: props[text] = the Proposition object of the atomic
\* node visited last; a truth constant is collected under its text as well
RECURSIVE collect_propositions(_, _)
collect_propositions(node, found) ==
    IF node = NoneNode THEN found
    ELSE IF IsAtomicNode(node)
    THEN [nm \in DOMAIN found \cup {node[2]} |-> IF nm = node[2] THEN node ELSE found[nm]]
    ELSE IF node[4] # NoneNode
    THEN collect_propositions(node[4], collect_propositions(node[3], found))
    ELSE collect_propositions(node[3], found)

\* `obj.value = v`: the setter of a TruthConstant does nothing
SetValue(st, obj, v) ==
    IF obj[1] = "atom" THEN [st EXCEPT ![<<obj[3], obj[2]>>] = v] ELSE st

\* for j, name in enumerate(other_names): propositions[name].value = bit j of row
RECURSIVE AssignOthers(_, _, _, _, _)
AssignOthers(st, propositions, other_names, row, j) ==
    IF j = Len(other_names) THEN st
    ELSE AssignOthers(SetValue(st, propositions[other_names[j + 1]], Bit(row, j)),
                      propositions, other_names, row, j + 1)

\* _check_proposition_useful from row `row` on: the answer and the store the
\* assignments leave behind
RECURSIVE check_proposition_useful(_, _, _, _, _, _)
check_proposition_useful(prop, propositions, other_names, target_name, row, st) ==
    IF row = Pow2(Len(other_names)) THEN [useful |-> FALSE, st |-> st]
    ELSE LET st_true == SetValue(AssignOthers(st, propositions, other_names, row, 0),
                                 propositions[target_name], TRUE)
         IN  IF evaluate(prop, SetValue(st_true, propositions[target_name], FALSE))
                  # evaluate(prop, st_true)
             THEN [useful |-> TRUE, st |-> st_true]
             ELSE check_proposition_useful(prop, propositions, other_names, target_name,
                                           row + 1, st_true)

\* for target_name in prop_names: useful.add / useless.add
RECURSIVE usefulness_loop(_, _, _, _, _)
usefulness_loop(prop, propositions, prop_names, k, acc) ==
    IF k > Len(prop_names) THEN acc
    ELSE LET checked ==
                check_proposition_useful(prop, propositions,
                    SelectSeq(prop_names, LAMBDA nm : nm # prop_names[k]),
                    prop_names[k], 0, acc.st)
         IN  usefulness_loop(prop, propositions, prop_names, k + 1,
                [useful |-> IF checked.useful THEN acc.useful \cup {prop_names[k]}
                            ELSE acc.useful,
                 st |-> checked.st])

\* for p in propositions.values(): p.value = False
RECURSIVE AllFalse(_, _, _, _)
AllFalse(st, propositions, prop_names, k) ==
    IF k > Len(prop_names) THEN st
    ELSE AllFalse(SetValue(st, propositions[prop_names[k]], FALSE),
                  propositions, prop_names, k + 1)

EmptyAnalysis ==
    [kind |-> "analysis", propositions |-> <<>>, useful |-> {}, useless |-> {},
     is_tautology |-> FALSE, is_contradiction |-> FALSE,
     useful_count |-> 0, useless_count |-> 0, total_count |-> 0]

\* analyze_proposition_usefulness(prop) of a CompoundProposition, the only
\* kind the engine hands to the predictors: the dictionary returned and the
\* store left behind (useful_ratio is useful_count over total_count)
analyze_proposition_usefulness(prop, st) ==
    LET propositions == collect_propositions(prop, <<>>)
        prop_names == SortedKeys(DOMAIN propositions)
        looped == usefulness_loop(prop, propositions, prop_names, 1,
                                  [useful |-> {}, st |-> st])
        useless == DOMAIN propositions \ looped.useful
        all_useless == Cardinality(useless) = Len(prop_names)
        st_false == AllFalse(looped.st, propositions, prop_names, 1)
    IN  IF prop = NoneNode \/ DOMAIN propositions = {}
        THEN [returned |-> EmptyAnalysis, st |-> st]
        ELSE [returned |->
                 [kind |-> "analysis", propositions |-> propositions,
                  useful |-> looped.useful, useless |-> useless,
                  is_tautology |-> all_useless /\ evaluate(prop, st_false),
                  is_contradiction |-> all_useless /\ ~evaluate(prop, st_false),
                  useful_count |-> Cardinality(looped.useful),
                  useless_count |-> Cardinality(useless),
                  total_count |-> Cardinality(DOMAIN propositions)],
              st |-> IF all_useless THEN st_false ELSE looped.st]

\* second operands of the analysed stage expressions
FeatureSeconds ==
    LET p2 == Proposition(<<"p">>, 2)  q2 == Proposition(<<"q">>, 2)
    IN  {p2, q2, Not(p2), And(p2, q2), Or(q2, p2), Implies(p2, q2), TRUE_CONST}

\* the values earlier evaluations (a truth table, an earlier analysis) left
\* in the cells of the two symbol tables
FeatureStores ==
    {st \in [Cells -> BOOLEAN] : \A c \in Cells : c[2] \notin AtomNames => ~st[c]}

\* FeatureSpec: a predictor extracts the features of an expression of a
\* strategy's search, built from two independently parsed propositions
FeatureInit ==
    /\ pc = "features"
    /\ caller = "features"
    /\ IdleLoader
    /\ prop1 \in Grow(Leaves(1))
    /\ prop2 \in FeatureSeconds
    /\ stage \in {"direct", "contrapositive", "absurdity", "forward", "backward"}
    /\ store \in FeatureStores
    /\ method = "none" /\ max_iterations = 0 /\ simplification_predictor = FALSE
    /\ is_trained = TRUE
    /\ IdleText /\ IdleOptimizer
    /\ impl = "none" /\ i = 0 /\ evals = <<0, 0>> /\ semantically_equivalent = FALSE
    /\ current1 = NoneNode /\ current2 = NoneNode /\ iteration = 0
    /\ applied_transformations = <<>> /\ nn_predictions_used = 0
    /\ IdleLaw /\ IdleOut

\* extract_features(prop) -> analyze_proposition_usefulness(prop) on one of
\* the two expressions of the stage
Analyze ==
    /\ pc = "features"
    /\ \E which \in {1, 2} :
          /\ stage_props(stage)[which] \notin {TRUE_CONST, FALSE_CONST}
          /\ expr' = stage_props(stage)[which]
          /\ result' = analyze_proposition_usefulness(stage_props(stage)[which], store).returned
          /\ store' = analyze_proposition_usefulness(stage_props(stage)[which], store).st
    /\ pc' = "analyzed"
    /\ UNCHANGED <<law, applied, applied_path, callVars, impl, i, evals,
                   semantically_equivalent, loopVars, attempts, queries, response>>

FeatureNext == Analyze
FeatureSpec == FeatureInit /\ [][FeatureNext]_vars

\* flipping every occurrence of x together changes the value under some
\* assignment to the other names
Flippable(e, x) ==
    \E env \in Assignments :
        evaluate(e, StoreOf([env EXCEPT ![x] = FALSE]))
            # evaluate(e, StoreOf([env EXCEPT ![x] = TRUE]))

\* C28: the analysis marks a variable name useful exactly when flipping all
\* its occurrences together can change the value of the expression, and
\* flags tautology (contradiction) exactly when the expression is true
\* (false) under every assignment, for every expression of a search
UsefulnessIsSemantic ==
    pc = "analyzed" =>
        /\ \A x \in props(expr) : (x \in result.useful) <=> Flippable(expr, x)
        /\ result.is_tautology <=> \A env \in Assignments : evaluate(expr, StoreOf(env))
        /\ result.is_contradiction <=> \A env \in Assignments : ~evaluate(expr, StoreOf(env))


-----------------------------------------------------------------------------
(* prove/service.py: the lazy loading of the models by concurrent requests *)

\* what no action of the loader changes
loaderFrame == <<pc, lawVars, prop1, prop2, callArgs, textVars, optVars, verVars,
                 loopVars, attempts, queries, result>>

\* TransformationPredictor(...) / SimplificationPredictor(...): a new object
\* with is_trained = False
NewPredictor(kind, t) == [o \in DOMAIN heap \cup {<<kind, t>>} |->
                             IF o = <<kind, t>> THEN FALSE ELSE heap[o]]

\* ProveService.prove, line 272: the thread enters _load_models and tests
\* `if _convergence_model is None`
LoadCheck(t) ==
    /\ thread_pc[t] = "idle"
    /\ thread_pc' = [thread_pc EXCEPT ![t] =
                        IF _convergence_model = None THEN "new_pairwise" ELSE "return"]
    /\ UNCHANGED <<_convergence_model, _simplification_model, _equivalence, heap,
                   train_self, context, trainings, response, loaderFrame>>

\* generate_dataset(...); _convergence_model = TransformationPredictor(...)
NewPairwise(t) ==
    /\ thread_pc[t] = "new_pairwise"
    /\ heap' = NewPredictor("pairwise", t)
    /\ _convergence_model' = <<"pairwise", t>>
    /\ thread_pc' = [thread_pc EXCEPT ![t] = "train_pairwise"]
    /\ UNCHANGED <<_simplification_model, _equivalence, train_self, context, trainings,
                   response, loaderFrame>>

\* _convergence_model.train(X, y, ...): the call binds the object the global
\* holds at this moment and starts fitting it
TrainPairwise(t) ==
    /\ thread_pc[t] = "train_pairwise"
    /\ train_self' = [train_self EXCEPT ![t] = _convergence_model]
    /\ trainings' = [trainings EXCEPT !.pairwise = @ + 1]
    /\ thread_pc' = [thread_pc EXCEPT ![t] = "fit_pairwise"]
    /\ UNCHANGED <<_convergence_model, _simplification_model, _equivalence, heap, context,
                   response, loaderFrame>>

\* the end of train(): self.model.fit(...); self.is_trained = True
FitPairwise(t) ==
    /\ thread_pc[t] = "fit_pairwise"
    /\ heap' = [heap EXCEPT ![train_self[t]] = TRUE]
    /\ train_self' = [train_self EXCEPT ![t] = None]
    /\ thread_pc' = [thread_pc EXCEPT ![t] = "new_single"]
    /\ UNCHANGED <<_convergence_model, _simplification_model, _equivalence, context,
                   trainings, response, loaderFrame>>

\* generate_simplification_dataset(...); _simplification_model = SimplificationPredictor(...)
NewSingle(t) ==
    /\ thread_pc[t] = "new_single"
    /\ heap' = NewPredictor("single", t)
    /\ _simplification_model' = <<"single", t>>
    /\ thread_pc' = [thread_pc EXCEPT ![t] = "train_single"]
    /\ UNCHANGED <<_convergence_model, _equivalence, train_self, context, trainings,
                   response, loaderFrame>>

\* _simplification_model.train(X_simp, y_simp, ...)
TrainSingle(t) ==
    /\ thread_pc[t] = "train_single"
    /\ train_self' = [train_self EXCEPT ![t] = _simplification_model]
    /\ trainings' = [trainings EXCEPT !.single = @ + 1]
    /\ thread_pc' = [thread_pc EXCEPT ![t] = "fit_single"]
    /\ UNCHANGED <<_convergence_model, _simplification_model, _equivalence, heap, context,
                   response, loaderFrame>>

FitSingle(t) ==
    /\ thread_pc[t] = "fit_single"
    /\ heap' = [heap EXCEPT ![train_self[t]] = TRUE]
    /\ train_self' = [train_self EXCEPT ![t] = None]
    /\ thread_pc' = [thread_pc EXCEPT ![t] = "new_engine"]
    /\ UNCHANGED <<_convergence_model, _simplification_model, _equivalence, context,
                   trainings, response, loaderFrame>>

\* _equivalence = Equivalence()
NewEngine(t) ==
    /\ thread_pc[t] = "new_engine"
    /\ _equivalence' = <<"engine", t>>
    /\ thread_pc' = [thread_pc EXCEPT ![t] = "return"]
    /\ UNCHANGED <<_convergence_model, _simplification_model, heap, train_self, context,
                   trainings, response, loaderFrame>>

\* return _convergence_model, _simplification_model, _equivalence, which
\* prove unpacks into model, simp_model, eq before it goes on
LoadReturn(t) ==
    /\ thread_pc[t] = "return"
    /\ context' = [context EXCEPT ![t] =
                      [kind |-> "context", model |-> _convergence_model,
                       simp_model |-> _simplification_model, eq |-> _equivalence]]
    /\ thread_pc' = [thread_pc EXCEPT ![t] = "loaded"]
    /\ UNCHANGED <<_convergence_model, _simplification_model, _equivalence, heap,
                   train_self, trainings, response, loaderFrame>>

\* ProveService.are_models_loaded()
are_models_loaded == _convergence_model # None

\* StatusService.get_status(), served by any other thread at any moment
GetStatus ==
    /\ response' = [kind |-> "status", status |-> "online",
                    models_loaded |-> are_models_loaded]
    /\ UNCHANGED <<loadVars, loaderFrame>>

\* LoaderSpec: the server was imported without the start-up preload and
\* NumThreads requests call ProveService.prove for the first time
LoaderInit ==
    /\ pc = "serving"
    /\ caller = "server"
    /\ IdleLoader
    /\ IdleCall /\ IdleVerifier /\ IdleLoop /\ IdleLaw /\ IdleOut

LoaderNext ==
    \/ \E t \in Threads :
          \/ LoadCheck(t)
          \/ NewPairwise(t) \/ TrainPairwise(t) \/ FitPairwise(t)
          \/ NewSingle(t) \/ TrainSingle(t) \/ FitSingle(t)
          \/ NewEngine(t)
          \/ LoadReturn(t)
    \/ GetStatus
LoaderSpec == LoaderInit /\ [][LoaderNext]_vars

\* the three globals are set and both policies are trained
LoadingCompleted ==
    /\ _convergence_model # None /\ heap[_convergence_model]
    /\ _simplification_model # None /\ heap[_simplification_model]
    /\ _equivalence # None

\* the context a thread goes on with is fully initialised
ContextComplete(c) ==
    /\ c.model # None /\ heap[c.model]
    /\ c.simp_model # None /\ heap[c.simp_model]
    /\ c.eq # None

\* C29: under any interleaving of concurrent first calls each policy is
\* trained at most once, no call goes past the loading with an untrained
\* pairwise policy, a missing single-expression policy or a missing engine,
\* and are_models_loaded() is true only once the loading has completed
LoadedOnceAndCompletely ==
    /\ trainings.pairwise <= 1 /\ trainings.single <= 1
    /\ \A t \in Threads : thread_pc[t] = "loaded" => ContextComplete(context[t])
    /\ are_models_loaded => LoadingCompleted


-----------------------------------------------------------------------------
(* The numbers of an optimised proof *)

\* the position in the original proof of the record the best shortcut targets
TargetedRecord ==
    CHOOSE k \in 1..original_steps :
        original_proof.transformations[k].iteration = optimization.best_shortcut.target_step

\* C30: when optimize_proof reports optimized=true for a proof with n
\* transformations, savings = n - optimized_steps > 0, 0 <= optimized_steps < n
\* and optimized_steps is the length of the shortcut plus the number of
\* original transformations after the targeted intermediate state
OptimizedStepsCounted ==
    (pc = "optimized" /\ optimization.optimized) =>
        /\ optimization.savings = original_steps - optimization.optimized_steps
        /\ optimization.savings > 0
        /\ 0 <= optimization.optimized_steps
        /\ optimization.optimized_steps < original_steps
        /\ optimization.optimized_steps =
               optimization.optimized_proof.transformations
                   + (original_steps - TargetedRecord)

\* an optimised proof whose shortcut has a rewrite of its own and leaves
\* original transformations after the targeted state
OptimizedStepsCountedWitness ==
    /\ pc = "optimized" /\ optimization.optimized
    /\ optimization.optimized_proof.transformations > 0
    /\ TargetedRecord < original_steps

\* a successful search never contains a pass in which no rewrite was applied
SuccessHasNoIdlePass ==
    (pc \in {"done", "optimized"} /\ result.success) =>
        \A k \in 1..Len(result.transformations) :
            result.transformations[k].iteration = k - 1

=============================================================================
